---------------------------- MODULE Spec2Model ----------------------------
(***************************************************************************)
(* Verification model of the deep-researcher repository:                   *)
(*   - the query-metrics tracker (telemetry/monitoring.ts),                *)
(*   - the Logger it reports through (telemetry/logger.ts),                *)
(*   - simpleResearcher (core/researcher.ts),                              *)
(*   - TavilySearchService (tavily_search.ts).                             *)
(* Optional TypeScript fields are modelled as a sequence of length 0       *)
(* (undefined) or 1 (the value).                                           *)
(***************************************************************************)
EXTENDS Integers, Sequences, FiniteSets, TLC

(***************************************************************************)
(* Bounds of the model.                                                    *)
(***************************************************************************)
MaxCalls == 4    \* tracker calls made in one run
MaxClock == 1    \* largest value the monotonic clock reaches
MaxNoise == 1    \* calls for another id interleaved with the scripted scenario
MaxResults == 2  \* longest result list a search gives

QueryIds == {"q1", "q2"}
QueryTexts == {"what is X", "test query"}
Values == {0, 1}
Errors == {[name |-> "Error", message |-> "Test error", stack |-> "Error: Test error"]}

Undefined == <<>>
Some(v) == <<v>>

VARIABLES
  activeQueries,   \* monitoring.ts: Map<string, QueryMetrics>
  now,             \* the value performance.now() returns
  ret,             \* return value of the last tracker call
  thrown,          \* whether the last tracker call raised an exception
  emitted,         \* console writes made by the last call, in order
  metricOps,       \* metric instrument operations made by the last call
  lastCall,        \* the last tracker call and its arguments
  recorded,        \* per queryId: what its caller has asked for since the most recent start
  calls            \* number of tracker calls made

trackerVars == <<activeQueries, now, ret, thrown, emitted, metricOps,
                 lastCall, recorded, calls>>

VARIABLES
  scenarioPc       \* number of calls of the scripted scenario made so far

scenarioVars == <<scenarioPc>>

VARIABLES
  rpc,             \* per invocation of simpleResearcher: where it is
  state,           \* per invocation: its ResearchState
  chatRequest,     \* per invocation: the requests sent to the chat client, in order
  chatOutcome,     \* per invocation: how the awaited chat call settled
  result,          \* per invocation: the value the returned promise resolved to
  consoleOut       \* per invocation: the console methods it called, in order

researcherVars == <<rpc, state, chatRequest, chatOutcome, result, consoleOut>>

VARIABLES
  svc,             \* the TavilySearchService instance: isTestMode, tavilyTool, mockResults
  scall,           \* the search / searchAndFormatResults call in progress or last made
  found,           \* what this.search(query) gave the last call
  sret,            \* how the last call settled
  networkCalls,    \* tavilyTool.invoke calls made by the last call
  searchConsole,   \* console methods called by the last call, in order
  constructedWith, \* what the constructor was called with and met
  mockGiven        \* the list most recently passed to setMockResults

searchVars == <<svc, scall, found, sret, networkCalls, searchConsole,
                constructedWith, mockGiven>>

VARIABLES
  searchSpan,      \* the span of the last instrumented search call
  searchLog,       \* Logger records written by the last instrumented search call, in order
  searchMetrics,   \* metric instrument operations made by the last instrumented search call
  traced           \* the instrumented call's queryId argument and startTime

tracedVars == <<searchSpan, searchLog, searchMetrics, traced>>

VARIABLES
  serviceClass     \* which of the two TavilySearchService classes was instantiated

VARIABLES
  written,         \* console.log / console.warn / console.error calls of Logger, in order
  logged,          \* the Logger calls made, in order, and whether each threw
  logThrown        \* whether the last Logger call threw

loggerVars == <<written, logged, logThrown>>

VARIABLES
  wrapped,         \* the function createTracedFunction returned: its name and options
  tcalls           \* per call of that function: its arguments, what fn did, its span, its result

tracingVars == <<wrapped, tcalls>>

VARIABLES
  manager,         \* the object createSpanManager returned: its name and options
  mspan,           \* createSpanManager closure: span (an index into spansMade, or null)
  mcontext,        \* createSpanManager closure: activeContext (holding a span, or null)
  spansMade,       \* the spans tracer.startSpan returned to the manager, with what was done to them
  mlast,           \* the last manager call: its name, what it returned, whether it threw
  mcalls           \* number of manager calls made

managerVars == <<manager, mspan, mcontext, spansMade, mlast, mcalls>>

VARIABLES
  telemetry,       \* the last initializeTelemetry call: what it read, logged and returned
  gotLogger        \* what getLogger(component) of the returned object gave

telemetryVars == <<telemetry, gotLogger>>

VARIABLES
  taskPc,          \* per concurrent task: where it is
  taskDid          \* per concurrent task: the recorder call it made

taskVars == <<taskPc, taskDid>>

VARIABLES
  objects,         \* the QueryMetrics objects created so far, by reference
  entries,         \* activeQueries as a Map from queryId to a reference
  held,            \* the references finalizeQueryTracking returned, with the record as it was then
  clock,           \* the value performance.now() returns
  hlast,           \* the last call on the Map of references, and what it replaced
  hrecorded        \* per queryId: what its caller has asked for since the most recent start

heapVars == <<objects, entries, held, clock, hlast, hrecorded>>

\* what the scripted scenario and the tracker calls it makes leave alone
otherThanScenario == <<researcherVars, searchVars, tracedVars, serviceClass,
                     loggerVars, tracingVars, managerVars, telemetryVars,
                     taskVars, heapVars>>

otherThanTracker == <<scenarioVars, otherThanScenario>>

otherThanResearcher == <<trackerVars, scenarioVars, searchVars, tracedVars,
                       serviceClass, loggerVars, tracingVars, managerVars,
                       telemetryVars, taskVars, heapVars>>

\* what the constructor leaves alone outside the instance
otherThanService == <<trackerVars, scenarioVars, researcherVars, tracedVars,
                    loggerVars, tracingVars, managerVars, telemetryVars,
                    taskVars, heapVars>>

otherThanSearch == <<otherThanService, serviceClass>>

\* what an instrumented search call leaves alone outside the service
otherThanTracedSearch == <<now, ret, thrown, emitted, metricOps, lastCall, recorded, calls,
                           scenarioVars, researcherVars, serviceClass, loggerVars,
                           tracingVars, managerVars, telemetryVars, taskVars, heapVars>>

otherThanLogger == <<trackerVars, scenarioVars, researcherVars, searchVars,
                   tracedVars, serviceClass, tracingVars, managerVars,
                   telemetryVars, taskVars, heapVars>>

otherThanTracing == <<trackerVars, scenarioVars, researcherVars, searchVars,
                    tracedVars, serviceClass, loggerVars, managerVars,
                    telemetryVars, taskVars, heapVars>>

otherThanManager == <<trackerVars, scenarioVars, researcherVars, searchVars,
                    tracedVars, serviceClass, loggerVars, tracingVars,
                    telemetryVars, taskVars, heapVars>>

otherThanTelemetry == <<trackerVars, scenarioVars, researcherVars, searchVars,
                      tracedVars, serviceClass, loggerVars, tracingVars,
                      managerVars, taskVars, heapVars>>

\* what a task and the tracker call it makes leave alone
otherThanTasks == <<scenarioVars, researcherVars, searchVars, tracedVars,
                  serviceClass, loggerVars, tracingVars, managerVars,
                  telemetryVars, heapVars>>

otherThanHeap == <<trackerVars, scenarioVars, researcherVars, searchVars,
                   tracedVars, serviceClass, loggerVars, tracingVars,
                   managerVars, telemetryVars, taskVars>>

vars == <<trackerVars, scenarioVars, researcherVars, searchVars,
          tracedVars, serviceClass, loggerVars, tracingVars,
          managerVars, telemetryVars, taskVars, heapVars>>

ScenarioInit == scenarioPc = 0

(***************************************************************************)
(* Logger (telemetry/logger.ts).                                           *)
(***************************************************************************)
\* variant: warnings go to console.log
StreamOfWarnToLog(level) ==
  IF level = "ERROR" THEN "console.error" ELSE "console.log"

StreamOf(level) ==
  IF level = "ERROR" THEN "console.error"
  ELSE IF level = "WARN" THEN "console.warn"
  ELSE "console.log"

LoggerLog(component, level, message, details) ==
  [stream |-> StreamOf(level),
   level |-> level,
   message |-> message,
   component |-> component,
   details |-> details]

LoggerDebug(component, message, details) == LoggerLog(component, "DEBUG", message, details)
LoggerInfo(component, message, details) == LoggerLog(component, "INFO", message, details)
LoggerWarn(component, message, details) == LoggerLog(component, "WARN", message, details)
LoggerError(component, message, details) == LoggerLog(component, "ERROR", message, details)

(***************************************************************************)
(* Map<string, QueryMetrics> operations.                                   *)
(***************************************************************************)
MapHas(m, k) == k \in DOMAIN m
\* variant: a key that is present keeps its value
MapSetKeepsPresent(m, k, v) ==
  [x \in (DOMAIN m) \cup {k} |-> IF x = k /\ x \notin DOMAIN m THEN v ELSE m[x]]
\* variant: every key is given the value
MapSetEvery(m, k, v) == [x \in (DOMAIN m) \cup {k} |-> v]
MapSet(m, k, v) == [x \in (DOMAIN m) \cup {k} |-> IF x = k THEN v ELSE m[x]]
\* variant: the entry is left in the map
MapDeleteKeeps(m, k) == m
MapDelete(m, k) == [x \in (DOMAIN m) \ {k} |-> m[x]]

\* JavaScript `x || 0` on an optional number
\* variant: the stored number is not read
OrZeroNotRead(opt) == 0
OrZero(opt) == IF opt = Undefined THEN 0 ELSE IF opt[1] = 0 THEN 0 ELSE opt[1]

(***************************************************************************)
(* QueryMetrics record updates made by the tracker functions.              *)
(***************************************************************************)
NewQueryMetrics(queryId, queryText, t) ==
  [queryId |-> queryId,
   queryText |-> queryText,
   startTime |-> t,
   searchLatency |-> Undefined,
   documentFetchCount |-> Undefined,
   tokenUsage |-> Undefined,
   totalProcessingTime |-> Undefined,
   errorCount |-> Some(0),
   sourceDiversity |-> Undefined,
   hallucinations |-> Undefined]

WithSearchLatency(query, latencyMs) ==
  [query EXCEPT !.searchLatency = Some(latencyMs)]

\* variant: the count is added to the stored one
WithDocumentFetchCountAdds(query, count) ==
  [query EXCEPT !.documentFetchCount = Some(OrZero(query.documentFetchCount) + count)]

WithDocumentFetchCount(query, count) ==
  [query EXCEPT !.documentFetchCount = Some(count)]

\* variant: the new value replaces the stored one
WithTokenUsageOverwrites(query, tokens) ==
  [query EXCEPT !.tokenUsage = Some(tokens)]

WithTokenUsage(query, tokens) ==
  [query EXCEPT !.tokenUsage = Some(OrZero(query.tokenUsage) + tokens)]

\* variant: the value is written to the neighbouring field
WithSourceDiversityWrongField(query, uniqueSourceCount) ==
  [query EXCEPT !.documentFetchCount = Some(uniqueSourceCount)]

WithSourceDiversity(query, uniqueSourceCount) ==
  [query EXCEPT !.sourceDiversity = Some(uniqueSourceCount)]

\* variant: the count is set, not incremented
WithErrorCountSetsOne(query) ==
  [query EXCEPT !.errorCount = Some(1)]

WithErrorCount(query) ==
  [query EXCEPT !.errorCount = Some(OrZero(query.errorCount) + 1)]

\* variant: the subtraction is reversed
WithTotalProcessingTimeReversed(query, t) ==
  [query EXCEPT !.totalProcessingTime = Some(query.startTime - t)]

WithTotalProcessingTime(query, t) ==
  [query EXCEPT !.totalProcessingTime = Some(t - query.startTime)]

(***************************************************************************)
(* The caller's side: what has been asked for an id since its most recent  *)
(* startQueryTracking call, kept whether or not the tracker knows the id.  *)
(***************************************************************************)
NothingRecorded(started, text) ==
  [started |-> started,
   text |-> text,
   finalizeCalls |-> 0,
   searchLatency |-> Undefined,
   documentFetchCount |-> Undefined,
   tokenUsage |-> Undefined,
   tokenCalls |-> 0,
   sourceDiversity |-> Undefined,
   errors |-> 0,
   overwritten |-> FALSE]

Noted(r, call) ==
  CASE call.op = "startQueryTracking" -> NothingRecorded(TRUE, call.text)
    [] call.op = "recordSearchLatency" ->
         [r EXCEPT !.searchLatency = Some(call.value),
                   !.overwritten = @ \/ r.searchLatency # Undefined]
    [] call.op = "recordDocumentsFetched" ->
         [r EXCEPT !.documentFetchCount = Some(call.value),
                   !.overwritten = @ \/ r.documentFetchCount # Undefined]
    [] call.op = "recordTokenUsage" ->
         [r EXCEPT !.tokenUsage = IF @ = Undefined THEN Some(call.value)
                                  ELSE Some(@[1] + call.value),
                   !.tokenCalls = @ + 1]
    [] call.op = "recordSourceDiversity" ->
         [r EXCEPT !.sourceDiversity = Some(call.value),
                   !.overwritten = @ \/ r.sourceDiversity # Undefined]
    [] call.op = "recordError" -> [r EXCEPT !.errors = @ + 1]
    [] call.op = "finalizeQueryTracking" -> [r EXCEPT !.finalizeCalls = @ + 1]

Observe(call) ==
  /\ lastCall' = call
  /\ recorded' = [recorded EXCEPT ![call.queryId] = Noted(@, call)]
  /\ calls' = calls + 1

(***************************************************************************)
(* Tracker operations (telemetry/monitoring.ts).                           *)
(***************************************************************************)
startQueryTracking(queryId, queryText) ==
  /\ activeQueries' = MapSet(activeQueries, queryId,
                             NewQueryMetrics(queryId, queryText, now))
  /\ emitted' = <<LoggerInfo("monitoring", "Query tracking started",
                             [queryId |-> queryId, queryText |-> queryText])>>
  /\ metricOps' = <<>>
  /\ ret' = Undefined
  /\ thrown' = FALSE
  /\ Observe([op |-> "startQueryTracking", queryId |-> queryId, text |-> queryText, value |-> 0])
  /\ UNCHANGED now

\* variant: an unknown id gets an entry (upsert)
recordSearchLatencyUpserts(queryId, latencyMs) ==
  /\ IF MapHas(activeQueries, queryId)
       THEN /\ activeQueries' = MapSet(activeQueries, queryId,
                                  WithSearchLatency(activeQueries[queryId], latencyMs))
            /\ metricOps' = <<[instrument |-> "search_latency", op |-> "record", value |-> latencyMs],
                              [instrument |-> "search_requests", op |-> "add", value |-> 1]>>
            /\ emitted' = <<LoggerDebug("monitoring", "Search latency recorded",
                                        [queryId |-> queryId, latencyMs |-> latencyMs])>>
       ELSE /\ activeQueries' = MapSet(activeQueries, queryId,
                                  WithSearchLatency(NewQueryMetrics(queryId, "", now), latencyMs))
            /\ metricOps' = <<>>
            /\ emitted' = <<LoggerWarn("monitoring",
                                       "Attempted to record search latency for unknown query",
                                       [queryId |-> queryId])>>
  /\ ret' = Undefined
  /\ thrown' = FALSE
  /\ Observe([op |-> "recordSearchLatency", queryId |-> queryId, text |-> "", value |-> latencyMs])
  /\ UNCHANGED now

recordSearchLatency(queryId, latencyMs) ==
  /\ IF MapHas(activeQueries, queryId)
       THEN /\ activeQueries' = MapSet(activeQueries, queryId,
                                  WithSearchLatency(activeQueries[queryId], latencyMs))
            /\ metricOps' = <<[instrument |-> "search_latency", op |-> "record", value |-> latencyMs],
                              [instrument |-> "search_requests", op |-> "add", value |-> 1]>>
            /\ emitted' = <<LoggerDebug("monitoring", "Search latency recorded",
                                        [queryId |-> queryId, latencyMs |-> latencyMs])>>
       ELSE /\ activeQueries' = activeQueries
            /\ metricOps' = <<>>
            /\ emitted' = <<LoggerWarn("monitoring",
                                       "Attempted to record search latency for unknown query",
                                       [queryId |-> queryId])>>
  /\ ret' = Undefined
  /\ thrown' = FALSE
  /\ Observe([op |-> "recordSearchLatency", queryId |-> queryId, text |-> "", value |-> latencyMs])
  /\ UNCHANGED now

recordDocumentsFetched(queryId, count) ==
  /\ IF MapHas(activeQueries, queryId)
       THEN /\ activeQueries' = MapSet(activeQueries, queryId,
                                  WithDocumentFetchCount(activeQueries[queryId], count))
            /\ metricOps' = <<[instrument |-> "documents_fetched", op |-> "add", value |-> count]>>
            /\ emitted' = <<LoggerDebug("monitoring", "Documents fetched recorded",
                                        [queryId |-> queryId, count |-> count])>>
       ELSE /\ activeQueries' = activeQueries
            /\ metricOps' = <<>>
            /\ emitted' = <<LoggerWarn("monitoring",
                                       "Attempted to record documents fetched for unknown query",
                                       [queryId |-> queryId])>>
  /\ ret' = Undefined
  /\ thrown' = FALSE
  /\ Observe([op |-> "recordDocumentsFetched", queryId |-> queryId, text |-> "", value |-> count])
  /\ UNCHANGED now

recordTokenUsage(queryId, tokens) ==
  /\ IF MapHas(activeQueries, queryId)
       THEN /\ activeQueries' = MapSet(activeQueries, queryId,
                                  WithTokenUsage(activeQueries[queryId], tokens))
            /\ metricOps' = <<[instrument |-> "llm_token_usage", op |-> "add", value |-> tokens]>>
            /\ emitted' = <<LoggerDebug("monitoring", "Token usage recorded",
                                        [queryId |-> queryId, tokens |-> tokens])>>
       ELSE /\ activeQueries' = activeQueries
            /\ metricOps' = <<>>
            /\ emitted' = <<LoggerWarn("monitoring",
                                       "Attempted to record token usage for unknown query",
                                       [queryId |-> queryId])>>
  /\ ret' = Undefined
  /\ thrown' = FALSE
  /\ Observe([op |-> "recordTokenUsage", queryId |-> queryId, text |-> "", value |-> tokens])
  /\ UNCHANGED now

recordSourceDiversity(queryId, uniqueSourceCount) ==
  /\ IF MapHas(activeQueries, queryId)
       THEN /\ activeQueries' = MapSet(activeQueries, queryId,
                                  WithSourceDiversity(activeQueries[queryId], uniqueSourceCount))
            /\ metricOps' = <<[instrument |-> "source_diversity", op |-> "record",
                               value |-> uniqueSourceCount]>>
            /\ emitted' = <<LoggerDebug("monitoring", "Source diversity recorded",
                                        [queryId |-> queryId,
                                         uniqueSourceCount |-> uniqueSourceCount])>>
       ELSE /\ activeQueries' = activeQueries
            /\ metricOps' = <<>>
            /\ emitted' = <<LoggerWarn("monitoring",
                                       "Attempted to record source diversity for unknown query",
                                       [queryId |-> queryId])>>
  /\ ret' = Undefined
  /\ thrown' = FALSE
  /\ Observe([op |-> "recordSourceDiversity", queryId |-> queryId, text |-> "", value |-> uniqueSourceCount])
  /\ UNCHANGED now

recordError(queryId, error) ==
  /\ IF MapHas(activeQueries, queryId)
       THEN /\ activeQueries' = MapSet(activeQueries, queryId,
                                  WithErrorCount(activeQueries[queryId]))
            /\ metricOps' = <<[instrument |-> "error_count", op |-> "add", value |-> 1]>>
            /\ emitted' = <<LoggerError("monitoring", "Error during query processing",
                                        [queryId |-> queryId,
                                         errorMessage |-> error.message,
                                         errorStack |-> error.stack])>>
       ELSE /\ activeQueries' = activeQueries
            /\ metricOps' = <<>>
            /\ emitted' = <<LoggerWarn("monitoring",
                                       "Attempted to record error for unknown query",
                                       [queryId |-> queryId, errorMessage |-> error.message])>>
  /\ ret' = Undefined
  /\ thrown' = FALSE
  /\ Observe([op |-> "recordError", queryId |-> queryId, text |-> error.name, value |-> 0])
  /\ UNCHANGED now

\* variant: an unknown id is answered with an empty record and no warning
finalizeQueryTrackingDefaults(queryId) ==
  /\ IF MapHas(activeQueries, queryId)
       THEN LET query == WithTotalProcessingTime(activeQueries[queryId], now)
            IN /\ metricOps' = <<[instrument |-> "query_handling_time", op |-> "record",
                                  value |-> query.totalProcessingTime[1]]>>
               /\ emitted' = <<LoggerInfo("monitoring", "Query processing completed",
                                 [queryId |-> queryId,
                                  totalProcessingTime |-> query.totalProcessingTime,
                                  documentsFetched |-> query.documentFetchCount,
                                  tokenUsage |-> query.tokenUsage,
                                  sourceDiversity |-> query.sourceDiversity,
                                  errorCount |-> query.errorCount])>>
               /\ activeQueries' = MapDelete(activeQueries, queryId)
               /\ ret' = Some(query)
       ELSE /\ activeQueries' = activeQueries
            /\ metricOps' = <<>>
            /\ emitted' = <<>>
            /\ ret' = Some(NewQueryMetrics(queryId, "", now))
  /\ thrown' = FALSE
  /\ Observe([op |-> "finalizeQueryTracking", queryId |-> queryId, text |-> "", value |-> 0])
  /\ UNCHANGED now

finalizeQueryTracking(queryId) ==
  /\ IF MapHas(activeQueries, queryId)
       THEN LET query == WithTotalProcessingTime(activeQueries[queryId], now)
            IN /\ metricOps' = <<[instrument |-> "query_handling_time", op |-> "record",
                                  value |-> query.totalProcessingTime[1]]>>
               /\ emitted' = <<LoggerInfo("monitoring", "Query processing completed",
                                 [queryId |-> queryId,
                                  totalProcessingTime |-> query.totalProcessingTime,
                                  documentsFetched |-> query.documentFetchCount,
                                  tokenUsage |-> query.tokenUsage,
                                  sourceDiversity |-> query.sourceDiversity,
                                  errorCount |-> query.errorCount])>>
               /\ activeQueries' = MapDelete(activeQueries, queryId)
               /\ ret' = Some(query)
       ELSE /\ activeQueries' = activeQueries
            /\ metricOps' = <<>>
            /\ emitted' = <<LoggerWarn("monitoring", "Attempted to finalize unknown query",
                                       [queryId |-> queryId])>>
            /\ ret' = Undefined
  /\ thrown' = FALSE
  /\ Observe([op |-> "finalizeQueryTracking", queryId |-> queryId, text |-> "", value |-> 0])
  /\ UNCHANGED now

\* performance.now() is a monotonic clock; time passes between calls
Tick ==
  /\ now < MaxClock
  /\ now' = now + 1
  /\ UNCHANGED <<activeQueries, ret, thrown, emitted, metricOps, lastCall, recorded, calls>>

TrackerInit ==
  /\ activeQueries = <<>>
  /\ now = 0
  /\ ret = Undefined
  /\ thrown = FALSE
  /\ emitted = <<>>
  /\ metricOps = <<>>
  /\ lastCall = [op |-> "none", queryId |-> "", text |-> "", value |-> 0]
  /\ recorded = [q \in QueryIds |-> NothingRecorded(FALSE, "")]
  /\ calls = 0

TrackerNext ==
  \/ \E q \in QueryIds, t \in QueryTexts :
       calls < MaxCalls /\ startQueryTracking(q, t) /\ UNCHANGED otherThanTracker
  \/ \E q \in QueryIds, v \in Values :
       calls < MaxCalls /\ recordSearchLatency(q, v) /\ UNCHANGED otherThanTracker
  \/ \E q \in QueryIds, v \in Values :
       calls < MaxCalls /\ recordDocumentsFetched(q, v) /\ UNCHANGED otherThanTracker
  \/ \E q \in QueryIds, v \in Values :
       calls < MaxCalls /\ recordTokenUsage(q, v) /\ UNCHANGED otherThanTracker
  \/ \E q \in QueryIds, v \in Values :
       calls < MaxCalls /\ recordSourceDiversity(q, v) /\ UNCHANGED otherThanTracker
  \/ \E q \in QueryIds, e \in Errors :
       calls < MaxCalls /\ recordError(q, e) /\ UNCHANGED otherThanTracker
  \/ \E q \in QueryIds :
       calls < MaxCalls /\ finalizeQueryTracking(q) /\ UNCHANGED otherThanTracker
  \/ Tick /\ UNCHANGED otherThanTracker


(***************************************************************************)
(* simpleResearcher (core/researcher.ts).  An invocation runs without      *)
(* suspension up to the awaited chat call and again from its settlement to *)
(* the return; invocations interleave at the await.                        *)
(***************************************************************************)
Invocations == {1, 2}
Queries == {"What is LangGraph?", ""}
Contents == {"", "LangGraph is a library.", "Sorry, I couldn't find an answer."}

ErrorFallback == "Sorry, I encountered an error while generating your answer."
NotFoundFallback == "Sorry, I couldn't find an answer."

NewResearchState(query) ==
  [question |-> query, research_summary |-> Undefined, answer |-> Undefined]

ResearchSummary(question) ==
  "Found some interesting information about: " \o question

ChatMessages(st) ==
  <<[role |-> "system", content |-> "You are a helpful research assistant."],
    [role |-> "human",
     content |-> "Question: " \o st.question \o "\nResearch: " \o st.research_summary[1]
                 \o "\nPlease provide a concise answer."]>>

ChatOpenAIOptions == [temperature |-> 0, modelName |-> "gpt-3.5-turbo"]

\* variant: the answer is returned as it is
OrNotFoundReturnsAnswer(answer) == answer[1]

\* JavaScript `state.answer || "Sorry, I couldn't find an answer."`
OrNotFound(answer) ==
  IF answer = Undefined THEN NotFoundFallback
  ELSE IF answer[1] = "" THEN NotFoundFallback
  ELSE answer[1]

\* the call up to `await llm.invoke(...)`, when the client is constructed
ResearcherCall(i, query) ==
  /\ rpc[i] = "idle"
  /\ LET st == [NewResearchState(query) EXCEPT
                  !.research_summary = Some(ResearchSummary(query))]
     IN /\ state' = [state EXCEPT ![i] = st]
        /\ chatRequest' = [chatRequest EXCEPT ![i] =
             Append(@, [options |-> ChatOpenAIOptions, messages |-> ChatMessages(st)])]
  /\ consoleOut' = [consoleOut EXCEPT ![i] = <<"console.log", "console.log", "console.log">>]
  /\ rpc' = [rpc EXCEPT ![i] = "awaiting"]
  /\ UNCHANGED <<chatOutcome, result>>

\* the call when `new ChatOpenAI(...)` throws: the constructor is outside the try block
ResearcherCallClientFails(i, query) ==
  /\ rpc[i] = "idle"
  /\ state' = [state EXCEPT ![i] = NewResearchState(query)]
  /\ consoleOut' = [consoleOut EXCEPT ![i] = <<"console.log">>]
  /\ rpc' = [rpc EXCEPT ![i] = "rejected"]
  /\ UNCHANGED <<chatRequest, chatOutcome, result>>

\* the awaited chat call resolves with response.content = content
ChatResolves(i, content) ==
  /\ rpc[i] = "awaiting"
  /\ chatOutcome' = [chatOutcome EXCEPT ![i] = [kind |-> "content", content |-> content]]
  /\ LET st == [state[i] EXCEPT !.answer = Some(content)]
     IN /\ state' = [state EXCEPT ![i] = st]
        /\ result' = [result EXCEPT ![i] = Some(OrNotFound(st.answer))]
  /\ rpc' = [rpc EXCEPT ![i] = "done"]
  /\ UNCHANGED <<chatRequest, consoleOut>>

\* the awaited chat call rejects
ChatRejects(i) ==
  /\ rpc[i] = "awaiting"
  /\ chatOutcome' = [chatOutcome EXCEPT ![i] = [kind |-> "throw", content |-> ""]]
  /\ LET st == [state[i] EXCEPT !.answer = Some(ErrorFallback)]
     IN /\ state' = [state EXCEPT ![i] = st]
        /\ result' = [result EXCEPT ![i] = Some(OrNotFound(st.answer))]
  /\ consoleOut' = [consoleOut EXCEPT ![i] = Append(@, "console.error")]
  /\ rpc' = [rpc EXCEPT ![i] = "done"]
  /\ UNCHANGED chatRequest

ResearcherInit ==
  /\ rpc = [i \in Invocations |-> "idle"]
  /\ state = [i \in Invocations |-> NewResearchState("")]
  /\ chatRequest = [i \in Invocations |-> <<>>]
  /\ chatOutcome = [i \in Invocations |-> [kind |-> "none", content |-> ""]]
  /\ result = [i \in Invocations |-> Undefined]
  /\ consoleOut = [i \in Invocations |-> <<>>]

ResearcherNext ==
  \/ \E i \in Invocations, q \in Queries :
       ResearcherCall(i, q) /\ UNCHANGED otherThanResearcher
  \/ \E i \in Invocations, q \in Queries :
       ResearcherCallClientFails(i, q) /\ UNCHANGED otherThanResearcher
  \/ \E i \in Invocations, c \in Contents :
       ChatResolves(i, c) /\ UNCHANGED otherThanResearcher
  \/ \E i \in Invocations :
       ChatRejects(i) /\ UNCHANGED otherThanResearcher

(***************************************************************************)
(* TavilySearchService (tavily_search.ts).  Text is a sequence of          *)
(* one-character strings, so that formatting and containment are computed. *)
(***************************************************************************)
SummaryLimit == 200

TextNoResults == <<"N", "o", " ", "r", "e", "s", "u", "l", "t", "s", " ", "f", "o", "u", "n", "d", ".">>
TextFound == <<"F", "o", "u", "n", "d", " ">>
TextResultsFor == <<" ", "r", "e", "s", "u", "l", "t", "s", " ", "f", "o", "r", " ", "\"">>
TextHeaderEnd == <<"\"", ":", "\n", "\n">>
TextDotQuote == <<".", " ", "\"">>
TextQuoteNewline == <<"\"", "\n">>
TextUrl == <<" ", " ", " ", "U", "R", "L", ":", " ">>
TextScore == <<" ", " ", " ", "R", "e", "l", "e", "v", "a", "n", "c", "e", " ", "S", "c", "o", "r", "e", ":", " ">>
TextSummary == <<" ", " ", " ", "S", "u", "m", "m", "a", "r", "y", ":", " ">>
TextEllipsis == <<".", ".", ".">>
TextNewline == <<"\n">>

TextDeno == <<"D", "e", "n", "o">>
TextDenoUrl == <<"h", "t", "t", "p", "s", ":", "/", "/", "d", "e", "n", "o", ".", "l", "a", "n", "d", "/">>
TextAnother == <<"A", "n", "o", "t", "h", "e", "r", " ", "R", "e", "s", "u", "l", "t">>
TextExampleUrl == <<"h", "t", "t", "p", "s", ":", "/", "/", "e", "x", "a", "m", "p", "l", "e", ".", "c", "o", "m">>
TextShortContent == <<"E", "x", "a", "m", "p", "l", "e", " ", "c", "o", "n", "t", "e", "n", "t">>
TextLongContent == [i \in 1..(SummaryLimit + 1) |-> "x"]
TextTestQuery == <<"t", "e", "s", "t", " ", "q", "u", "e", "r", "y">>

Digit(d) == <<"0", "1", "2", "3", "4", "5", "6", "7", "8", "9">>[d + 1]

\* a non-negative integer in a template literal
RECURSIVE NumberText(_)
NumberText(n) == IF n < 10 THEN <<Digit(n)>> ELSE NumberText(n \div 10) \o <<Digit(n % 10)>>

\* String.prototype.substring(0, n)
Substring0(text, n) == SubSeq(text, 1, IF Len(text) < n THEN Len(text) ELSE n)

SearchResults ==
  {[title |-> TextDeno, url |-> TextDenoUrl, content |-> TextLongContent, score |-> 1],
   [title |-> TextAnother, url |-> TextExampleUrl, content |-> TextShortContent, score |-> 0]}

RECURSIVE ListsUpTo(_)
ListsUpTo(n) ==
  IF n = 0 THEN {<<>>}
  ELSE LET shorter == ListsUpTo(n - 1)
       IN shorter \cup {Append(l, r) : l \in {x \in shorter : Len(x) = n - 1}, r \in SearchResults}

ResultLists == ListsUpTo(MaxResults)

SearchQueries == {TextTestQuery, <<>>}

\* variant: results are numbered from 0
FormatEntryFromZero(searchResult, index) ==
  NumberText(index) \o TextDotQuote \o searchResult.title \o TextQuoteNewline
  \o TextUrl \o searchResult.url \o TextNewline
  \o TextScore \o NumberText(searchResult.score) \o TextNewline
  \o TextSummary \o Substring0(searchResult.content, SummaryLimit)
  \o (IF Len(searchResult.content) > SummaryLimit THEN TextEllipsis ELSE <<>>)
  \o TextNewline \o TextNewline

\* the text one forEach iteration appends; index counts from 0
FormatEntry(searchResult, index) ==
  NumberText(index + 1) \o TextDotQuote \o searchResult.title \o TextQuoteNewline
  \o TextUrl \o searchResult.url \o TextNewline
  \o TextScore \o NumberText(searchResult.score) \o TextNewline
  \o TextSummary \o Substring0(searchResult.content, SummaryLimit)
  \o (IF Len(searchResult.content) > SummaryLimit THEN TextEllipsis ELSE <<>>)
  \o TextNewline \o TextNewline

RECURSIVE FormatEntries(_, _)
FormatEntries(results, index) ==
  IF index >= Len(results) THEN <<>>
  ELSE FormatEntry(results[index + 1], index) \o FormatEntries(results, index + 1)

\* variant: an empty list is formatted like any other
FormatResultsNoEmptyCase(results, query) ==
  TextFound \o NumberText(Len(results)) \o TextResultsFor \o query \o TextHeaderEnd
  \o FormatEntries(results, 0)

\* searchAndFormatResults after `await this.search(query)` gave a list
FormatResults(results, query) ==
  IF Len(results) = 0 THEN TextNoResults
  ELSE TextFound \o NumberText(Len(results)) \o TextResultsFor \o query \o TextHeaderEnd
       \o FormatEntries(results, 0)

(***************************************************************************)
(* The service instance and its operations (the class at                   *)
(* tavily_search.ts whose search parses the tool's JSON answer).           *)
(***************************************************************************)
NoService == [constructed |-> "none", isTestMode |-> FALSE, hasTool |-> FALSE, mockResults |-> <<>>]

\* what tavilyTool.invoke can do: resolve with a JSON string that parses to a
\* list, to something that is no list, or not at all; resolve with a value
\* that is no string (an array or not); reject with an Error or another value
InvokeOutcomes ==
  {[kind |-> "json_list", list |-> l, message |-> ""] : l \in ResultLists}
  \cup {[kind |-> "array", list |-> l, message |-> ""] : l \in ResultLists}
  \cup {[kind |-> "json_other", list |-> <<>>, message |-> ""],
        [kind |-> "json_invalid", list |-> <<>>, message |-> ""],
        [kind |-> "other", list |-> <<>>, message |-> ""],
        [kind |-> "error", list |-> <<>>, message |-> "Network error"],
        [kind |-> "thrown_value", list |-> <<>>, message |-> "timeout"]}

NotInvoked == [kind |-> "none", list |-> <<>>, message |-> ""]

Gave(kind, list, message) == [kind |-> kind, list |-> list, message |-> message]

Settled(kind, list, text, message) ==
  [kind |-> kind, list |-> list, text |-> text, message |-> message]

\* variant: the catch block swallows the error in every environment
ConstructSwallowsFailure(testMode, toolCreated, denoEnvTest) ==
  /\ svc.constructed = "none"
  /\ constructedWith' = Some([testMode |-> testMode, toolCreated |-> toolCreated,
                              denoEnvTest |-> denoEnvTest])
  /\ IF testMode
       THEN svc' = [NoService EXCEPT !.constructed = "ready", !.isTestMode = TRUE]
     ELSE IF toolCreated
       THEN svc' = [NoService EXCEPT !.constructed = "ready", !.hasTool = TRUE]
     ELSE svc' = [NoService EXCEPT !.constructed = "ready"]
  /\ searchConsole' = <<>>
  /\ UNCHANGED <<scall, found, sret, networkCalls, mockGiven>>

\* variant: the catch block rethrows in every environment
ConstructRethrowsAlways(testMode, toolCreated, denoEnvTest) ==
  /\ svc.constructed = "none"
  /\ constructedWith' = Some([testMode |-> testMode, toolCreated |-> toolCreated,
                              denoEnvTest |-> denoEnvTest])
  /\ IF testMode
       THEN svc' = [NoService EXCEPT !.constructed = "ready", !.isTestMode = TRUE]
     ELSE IF toolCreated
       THEN svc' = [NoService EXCEPT !.constructed = "ready", !.hasTool = TRUE]
     ELSE svc' = [NoService EXCEPT !.constructed = "failed"]
  /\ searchConsole' = <<>>
  /\ UNCHANGED <<scall, found, sret, networkCalls, mockGiven>>

\* constructor: options.testMode, whether new TavilySearchResults(...) returned,
\* and whether Deno.env.get('DENO_ENV') is 'test'
Construct(testMode, toolCreated, denoEnvTest) ==
  /\ svc.constructed = "none"
  /\ constructedWith' = Some([testMode |-> testMode, toolCreated |-> toolCreated,
                              denoEnvTest |-> denoEnvTest])
  /\ IF testMode
       THEN /\ svc' = [NoService EXCEPT !.constructed = "ready", !.isTestMode = TRUE]
            /\ searchConsole' = <<>>
     ELSE IF toolCreated
       THEN /\ svc' = [NoService EXCEPT !.constructed = "ready", !.hasTool = TRUE]
            /\ searchConsole' = <<>>
     ELSE IF denoEnvTest
       THEN /\ svc' = [NoService EXCEPT !.constructed = "ready", !.isTestMode = TRUE]
            /\ searchConsole' = <<"console.warn">>
     ELSE /\ svc' = [NoService EXCEPT !.constructed = "failed"]
          /\ searchConsole' = <<>>
  /\ UNCHANGED <<scall, found, sret, networkCalls, mockGiven>>

\* variant: the mode is left as it is
setMockResultsKeepsMode(mockResults) ==
  /\ svc.constructed = "ready"
  /\ svc' = [svc EXCEPT !.mockResults = mockResults]
  /\ mockGiven' = Some(mockResults)
  /\ UNCHANGED <<scall, found, sret, networkCalls, searchConsole, constructedWith>>

\* variant: the list is not stored
setMockResultsDropsList(mockResults) ==
  /\ svc.constructed = "ready"
  /\ svc' = [svc EXCEPT !.isTestMode = TRUE]
  /\ mockGiven' = Some(mockResults)
  /\ UNCHANGED <<scall, found, sret, networkCalls, searchConsole, constructedWith>>

setMockResults(mockResults) ==
  /\ svc.constructed = "ready"
  /\ svc' = [svc EXCEPT !.mockResults = mockResults, !.isTestMode = TRUE]
  /\ mockGiven' = Some(mockResults)
  /\ UNCHANGED <<scall, found, sret, networkCalls, searchConsole, constructedWith>>

\* what search resolves or rejects with, given how tavilyTool.invoke settled
SearchGives(outcome) ==
  CASE outcome.kind = "json_list" -> Gave("list", outcome.list, "")
    [] outcome.kind = "json_other" -> Gave("nonlist", <<>>, "")
    [] outcome.kind = "json_invalid" -> Gave("list", <<>>, "")
    [] outcome.kind = "array" -> Gave("list", outcome.list, "")
    [] outcome.kind = "other" -> Gave("list", <<>>, "")
    [] outcome.kind = "error" -> Gave("throw", <<>>, "Tavily search failed: " \o outcome.message)
    [] outcome.kind = "thrown_value" -> Gave("throw", <<>>, "Tavily search failed: " \o outcome.message)

\* the console writes search makes after tavilyTool.invoke settled
SearchWrites(outcome) ==
  CASE outcome.kind = "json_list" -> <<>>
    [] outcome.kind = "json_other" -> <<>>
    [] outcome.kind = "json_invalid" -> <<"console.error">>
    [] outcome.kind = "array" -> <<"console.warn">>
    [] outcome.kind = "other" -> <<"console.warn">>
    [] outcome.kind = "error" -> <<"console.error">>
    [] outcome.kind = "thrown_value" -> <<"console.error">>

\* the caller's continuation once this.search(query) has settled with `gave`
Settle(op, query, gave) ==
  IF op = "search"
    THEN IF gave.kind = "throw" THEN Settled("throw", <<>>, <<>>, gave.message)
         ELSE Settled(gave.kind, gave.list, <<>>, "")
  ELSE IF gave.kind = "throw" THEN Settled("throw", <<>>, <<>>, gave.message)
  ELSE IF gave.kind = "nonlist" THEN Settled("throw", <<>>, <<>>, "TypeError")
  ELSE Settled("text", <<>>, FormatResults(gave.list, query), "")

\* the call being made, with what the instance and its caller hold as it starts
Called(op, query, phase) ==
  [op |-> op, query |-> query, phase |-> phase,
   testMode |-> svc.isTestMode, mockGiven |-> mockGiven, outcome |-> NotInvoked]

\* search(query) or searchAndFormatResults(query), up to the first suspension
SearchCall(op, query) ==
  /\ svc.constructed = "ready"
  /\ scall.phase # "awaiting"
  /\ IF svc.isTestMode
       THEN LET gave == Gave("list", svc.mockResults, "")
            IN /\ scall' = Called(op, query, "done")
               /\ found' = gave
               /\ sret' = Settle(op, query, gave)
               /\ networkCalls' = 0
               /\ searchConsole' = <<>>
     ELSE IF ~svc.hasTool
       THEN LET gave == Gave("throw", <<>>, "Tavily search failed: Tavily tool not initialized")
            IN /\ scall' = Called(op, query, "done")
               /\ found' = gave
               /\ sret' = Settle(op, query, gave)
               /\ networkCalls' = 0
               /\ searchConsole' = <<"console.log", "console.error">>
     ELSE /\ scall' = Called(op, query, "awaiting")
          /\ found' = Gave("none", <<>>, "")
          /\ sret' = Settled("none", <<>>, <<>>, "")
          /\ networkCalls' = 1
          /\ searchConsole' = <<"console.log">>
  /\ UNCHANGED <<svc, constructedWith, mockGiven>>

\* tavilyTool.invoke settles and the call runs to its end
InvokeSettles(outcome) ==
  /\ scall.phase = "awaiting"
  /\ LET gave == SearchGives(outcome)
     IN /\ found' = gave
        /\ sret' = Settle(scall.op, scall.query, gave)
  /\ scall' = [scall EXCEPT !.phase = "done", !.outcome = outcome]
  /\ searchConsole' = searchConsole \o SearchWrites(outcome)
  /\ UNCHANGED <<svc, networkCalls, constructedWith, mockGiven>>

(***************************************************************************)
(* The instrumented class of the same name (the class at tavily_search.ts  *)
(* that imports the telemetry modules).  Its constructor, setMockResults   *)
(* and searchAndFormatResults are the code modelled above; its search      *)
(* differs.                                                                *)
(***************************************************************************)
NoSpan == [name |-> "", started |-> 0, ended |-> 0,
           attributes |-> [query |-> <<>>, query_id |-> Undefined],
           exceptions |-> <<>>]

\* tracer.startSpan('tavily_search') and the two setAttribute calls
StartedSearchSpan(query, queryId) ==
  [name |-> "tavily_search", started |-> 1, ended |-> 0,
   attributes |-> [query |-> query, query_id |-> queryId],
   exceptions |-> <<>>]

\* results.length of what tavilyTool.invoke resolved with: the number of
\* elements of an array, the number of characters of a string, undefined for
\* a value that has no length
TextLengths == {2, 5}

ResultLengths(outcome) ==
  IF outcome.kind = "array" THEN {Some(Len(outcome.list))}
  ELSE IF outcome.kind \in {"json_list", "json_other", "json_invalid"}
    THEN {Some(n) : n \in TextLengths}
  ELSE {Undefined}

MetricOp(instrument, op, value) == [instrument |-> instrument, op |-> op, value |-> value]

\* activeQueries after recordSearchLatency(queryId, duration) and
\* recordDocumentsFetched(queryId, length), which search makes when it was
\* given a queryId
TrackedAfterSearch(map, queryId, duration, length) ==
  IF queryId = Undefined THEN map
  ELSE IF ~MapHas(map, queryId[1]) THEN map
  ELSE LET timed == WithSearchLatency(map[queryId[1]], duration)
       IN MapSet(map, queryId[1],
                 IF length = Undefined THEN [timed EXCEPT !.documentFetchCount = Undefined]
                 ELSE WithDocumentFetchCount(timed, length[1]))

\* the metric operations of a search that succeeded, in order
MetricsOfSearch(map, queryId, duration, length) ==
  (IF queryId = Undefined THEN <<>>
   ELSE IF ~MapHas(map, queryId[1]) THEN <<>>
   ELSE <<MetricOp("search_latency", "record", Some(duration)),
          MetricOp("search_requests", "add", Some(1)),
          MetricOp("documents_fetched", "add", length)>>)
  \o <<MetricOp("search_latency", "record", Some(duration)),
       MetricOp("search_requests", "add", Some(1)),
       MetricOp("documents_fetched", "add", length)>>

\* the Logger records of a search that succeeded, written after the await
LogOfSearch(map, queryId, duration, length) ==
  (IF queryId = Undefined THEN <<>>
   ELSE IF ~MapHas(map, queryId[1])
     THEN <<LoggerWarn("monitoring", "Attempted to record search latency for unknown query",
                       [queryId |-> queryId[1]]),
            LoggerWarn("monitoring", "Attempted to record documents fetched for unknown query",
                       [queryId |-> queryId[1]])>>
   ELSE <<LoggerDebug("monitoring", "Search latency recorded",
                      [queryId |-> queryId[1], latencyMs |-> duration]),
          LoggerDebug("monitoring", "Documents fetched recorded",
                      [queryId |-> queryId[1], count |-> length])>>)
  \o <<LoggerInfo("TavilySearch", "Search completed",
                  [queryId |-> queryId, durationMs |-> duration, resultCount |-> length])>>

\* the catch block: what is logged and recorded on the span for the value thrown
LogOfFailure(query, queryId, isError, message) ==
  IF isError
    THEN <<LoggerError("TavilySearch", "Search failed",
                       [queryId |-> queryId, query |-> query, errorMessage |-> message])>>
  ELSE <<LoggerError("TavilySearch", "Search failed with unknown error",
                     [queryId |-> queryId, query |-> query])>>

ExceptionsOfFailure(isError, message) ==
  IF isError THEN <<[name |-> "Error", message |-> message]>> ELSE <<>>

\* what the instrumented search resolves or rejects with: the value of
\* tavilyTool.invoke as it is, or the value it was rejected with as it is
TracedSearchGives(outcome) ==
  CASE outcome.kind = "array" -> Gave("list", outcome.list, "")
    [] outcome.kind \in {"json_list", "json_other", "json_invalid", "other"} ->
         Gave("nonlist", <<>>, "")
    [] outcome.kind \in {"error", "thrown_value"} -> Gave("throw", <<>>, outcome.message)

\* search(query, queryId), or searchAndFormatResults(query) which calls
\* search(query), up to the first suspension
TracedSearchCall(op, query, queryId) ==
  /\ svc.constructed = "ready"
  /\ scall.phase # "awaiting"
  /\ op = "searchAndFormatResults" => queryId = Undefined
  /\ traced' = [queryId |-> queryId, startTime |-> now]
  /\ searchMetrics' = IF ~svc.isTestMode /\ ~svc.hasTool
                        THEN <<MetricOp("error_count", "add", Some(1))>> ELSE <<>>
  /\ LET performing == LoggerInfo("TavilySearch", "Performing Tavily search",
                                  [query |-> query, queryId |-> queryId])
         begun == StartedSearchSpan(query, queryId)
     IN IF svc.isTestMode
          THEN LET gave == Gave("list", svc.mockResults, "")
               IN /\ scall' = Called(op, query, "done")
                  /\ found' = gave
                  /\ sret' = Settle(op, query, gave)
                  /\ networkCalls' = 0
                  /\ searchLog' = <<performing,
                                    LoggerInfo("TavilySearch", "Using mock results (test mode)",
                                               [queryId |-> queryId])>>
                  /\ searchSpan' = [begun EXCEPT !.ended = 1]
        ELSE IF ~svc.hasTool
          THEN LET gave == Gave("throw", <<>>, "Tavily tool not initialized")
               IN /\ scall' = Called(op, query, "done")
                  /\ found' = gave
                  /\ sret' = Settle(op, query, gave)
                  /\ networkCalls' = 0
                  /\ searchLog' = <<performing,
                                    LoggerWarn("TavilySearch", "Tavily tool not initialized",
                                               [queryId |-> queryId])>>
                                  \o LogOfFailure(query, queryId, TRUE, gave.message)
                  /\ searchSpan' = [begun EXCEPT
                                      !.exceptions = ExceptionsOfFailure(TRUE, gave.message),
                                      !.ended = 1]
        ELSE /\ scall' = Called(op, query, "awaiting")
             /\ found' = Gave("none", <<>>, "")
             /\ sret' = Settled("none", <<>>, <<>>, "")
             /\ networkCalls' = 1
             /\ searchLog' = <<performing>>
             /\ searchSpan' = begun
  /\ searchConsole' = [i \in 1..Len(searchLog') |-> searchLog'[i].stream]
  /\ UNCHANGED <<svc, constructedWith, mockGiven, activeQueries>>

\* tavilyTool.invoke settles and the instrumented call runs to its end
TracedInvokeSettles(outcome, length) ==
  /\ scall.phase = "awaiting"
  /\ length \in ResultLengths(outcome)
  /\ LET gave == TracedSearchGives(outcome)
         duration == now - traced.startTime
         isError == outcome.kind = "error"
         records == IF gave.kind = "throw"
                      THEN LogOfFailure(scall.query, traced.queryId, isError, outcome.message)
                    ELSE LogOfSearch(activeQueries, traced.queryId, duration, length)
     IN /\ found' = gave
        /\ sret' = Settle(scall.op, scall.query, gave)
        /\ activeQueries' = IF gave.kind = "throw" THEN activeQueries
                            ELSE TrackedAfterSearch(activeQueries, traced.queryId, duration, length)
        /\ searchMetrics' = IF gave.kind = "throw"
                              THEN <<MetricOp("error_count", "add", Some(1))>>
                            ELSE MetricsOfSearch(activeQueries, traced.queryId, duration, length)
        /\ searchLog' = searchLog \o records
        /\ searchConsole' = searchConsole \o [i \in 1..Len(records) |-> records[i].stream]
        /\ searchSpan' = [searchSpan EXCEPT
                            !.exceptions = IF gave.kind = "throw"
                                             THEN ExceptionsOfFailure(isError, outcome.message)
                                           ELSE @,
                            !.ended = @ + 1]
  /\ scall' = [scall EXCEPT !.phase = "done", !.outcome = outcome]
  /\ UNCHANGED <<svc, networkCalls, constructedWith, mockGiven, traced>>

TracedInit ==
  /\ searchSpan = NoSpan
  /\ searchLog = <<>>
  /\ searchMetrics = <<>>
  /\ traced = [queryId |-> Undefined, startTime |-> 0]
  /\ serviceClass = "none"

SearchInit ==
  /\ svc = NoService
  /\ scall = [op |-> "none", query |-> <<>>, phase |-> "idle",
              testMode |-> FALSE, mockGiven |-> Undefined, outcome |-> NotInvoked]
  /\ found = Gave("none", <<>>, "")
  /\ sret = Settled("none", <<>>, <<>>, "")
  /\ networkCalls = 0
  /\ searchConsole = <<>>
  /\ constructedWith = Undefined
  /\ mockGiven = Undefined

Classes == {"plain", "instrumented"}

SearchNext ==
  \/ \E class \in Classes, testMode \in BOOLEAN, toolCreated \in BOOLEAN, denoEnvTest \in BOOLEAN :
       /\ Construct(testMode, toolCreated, denoEnvTest)
       /\ serviceClass' = class
       /\ UNCHANGED otherThanService
  \/ \E l \in ResultLists :
       setMockResults(l) /\ UNCHANGED otherThanSearch
  \/ \E op \in {"search", "searchAndFormatResults"}, q \in SearchQueries :
       serviceClass = "plain" /\ SearchCall(op, q) /\ UNCHANGED otherThanSearch
  \/ \E o \in InvokeOutcomes :
       serviceClass = "plain" /\ InvokeSettles(o) /\ UNCHANGED otherThanSearch
  \/ \E op \in {"search", "searchAndFormatResults"}, q \in SearchQueries,
        id \in {Undefined} \cup {Some(x) : x \in QueryIds} :
       serviceClass = "instrumented" /\ TracedSearchCall(op, q, id)
       /\ UNCHANGED otherThanTracedSearch
  \/ \E o \in InvokeOutcomes : \E n \in ResultLengths(o) :
       serviceClass = "instrumented" /\ TracedInvokeSettles(o, n)
       /\ UNCHANGED otherThanTracedSearch


\* the instrumented service used by a caller that tracks its queries: the
\* caller starts tracking an id and passes it, or another, to search
TrackedSearchNext ==
  \/ \E testMode \in BOOLEAN, toolCreated \in BOOLEAN, denoEnvTest \in BOOLEAN :
       /\ Construct(testMode, toolCreated, denoEnvTest)
       /\ serviceClass' = "instrumented"
       /\ UNCHANGED otherThanService
  \/ \E q \in QueryIds :
       /\ ~MapHas(activeQueries, q)
       /\ scall.phase # "awaiting"
       /\ startQueryTracking(q, "test query")
       /\ UNCHANGED otherThanTracker
  \/ \E id \in {Undefined} \cup {Some(x) : x \in QueryIds} :
       /\ serviceClass = "instrumented"
       /\ TracedSearchCall("search", TextTestQuery, id)
       /\ UNCHANGED otherThanTracedSearch
  \/ \E o \in InvokeOutcomes : \E n \in ResultLengths(o) :
       /\ serviceClass = "instrumented"
       /\ TracedInvokeSettles(o, n)
       /\ UNCHANGED otherThanTracedSearch

(***************************************************************************)
(* The Logger class in full (telemetry/logger.ts): the record it builds,   *)
(* its serialization and the console method it calls.  A details object    *)
(* is a sequence of members; a member's value is a string, undefined, or a *)
(* value JSON.stringify throws on (a BigInt, a cyclic object).             *)
(***************************************************************************)
MaxLogCalls == 3   \* Logger calls made in one run

LoggerComponent == "test-component"
LogMessages == {"Test message"}
IsoTimestamps == {"2025-01-01T00:00:00.000Z"}

StringValue(text) == [type |-> "string", text |-> text]
UndefinedValue == [type |-> "undefined", text |-> ""]
UnserializableValue == [type |-> "bigint", text |-> "10"]

Member(key, value) == [key |-> key, value |-> value]

LogDetails ==
  {<<>>,
   <<Member("key", StringValue("value"))>>,
   <<Member("level", StringValue("custom"))>>,
   <<Member("maybe", UndefinedValue)>>,
   <<Member("count", UnserializableValue)>>}

Keys(object) == {object[i].key : i \in 1..Len(object)}

\* { ...object, [member.key]: member.value }: a key that is present keeps
\* its place and takes the new value, a new key goes to the end
\* variant: a key that is present keeps its value
SetMemberKeepsPresent(object, member) ==
  IF member.key \in Keys(object) THEN object ELSE Append(object, member)

SetMember(object, member) ==
  IF member.key \in Keys(object)
    THEN [i \in 1..Len(object) |-> IF object[i].key = member.key THEN member ELSE object[i]]
  ELSE Append(object, member)

RECURSIVE Spread(_, _)
Spread(object, members) ==
  IF members = <<>> THEN object
  ELSE Spread(SetMember(object, members[1]), Tail(members))

\* the object literal of _log
LogRecord(timestamp, level, message, component, details) ==
  Spread(<<Member("timestamp", StringValue(timestamp)),
           Member("level", StringValue(level)),
           Member("message", StringValue(message)),
           Member("component", StringValue(component))>>,
         details)

\* JSON.stringify throws a TypeError on these objects
StringifyThrows(object) ==
  \E i \in 1..Len(object) : object[i].value.type = "bigint"

IsDefinedMember(member) == member.value.type # "undefined"

\* JSON.stringify of an object it does not throw on: the members of the
\* JSON text in order; a member whose value is undefined is left out
Stringify(object) == SelectSeq(object, IsDefinedMember)

\* _log(level, message, details)
Log(level, message, details, timestamp) ==
  /\ Len(logged) < MaxLogCalls
  /\ LET logRecord == LogRecord(timestamp, level, message, LoggerComponent, details)
     IN IF StringifyThrows(logRecord)
          THEN /\ written' = written
               /\ logThrown' = TRUE
          ELSE /\ written' = Append(written, [stream |-> StreamOf(level),
                                              text |-> Stringify(logRecord)])
               /\ logThrown' = FALSE
  /\ logged' = Append(logged, [level |-> level, message |-> message, details |-> details,
                               threw |-> logThrown'])

debug(message, details, timestamp) == Log("DEBUG", message, details, timestamp)
info(message, details, timestamp) == Log("INFO", message, details, timestamp)
warn(message, details, timestamp) == Log("WARN", message, details, timestamp)
error(message, details, timestamp) == Log("ERROR", message, details, timestamp)

LoggerInit ==
  /\ written = <<>>
  /\ logged = <<>>
  /\ logThrown = FALSE

LoggerNext ==
  \/ \E m \in LogMessages, d \in LogDetails, t \in IsoTimestamps :
       debug(m, d, t) /\ UNCHANGED otherThanLogger
  \/ \E m \in LogMessages, d \in LogDetails, t \in IsoTimestamps :
       info(m, d, t) /\ UNCHANGED otherThanLogger
  \/ \E m \in LogMessages, d \in LogDetails, t \in IsoTimestamps :
       warn(m, d, t) /\ UNCHANGED otherThanLogger
  \/ \E m \in LogMessages, d \in LogDetails, t \in IsoTimestamps :
       error(m, d, t) /\ UNCHANGED otherThanLogger

(***************************************************************************)
(* createTracedFunction (telemetry/tracing.ts).  A JavaScript value is a   *)
(* record of its kind and text: an Error with its message, a string, or an *)
(* object String() throws on (one without toString and valueOf).           *)
(***************************************************************************)
TracedCalls == {1, 2}
ArgLists == {<<>>, <<"hello", "42">>}
SpanNames == {"test-operation"}

ErrorValue(message) == [type |-> "Error", text |-> message]
UnconvertibleValue == [type |-> "object", text |-> ""]
TypeErrorValue == [type |-> "TypeError", text |-> "Cannot convert object to primitive value"]
NoValue == [type |-> "undefined", text |-> ""]

TracedOptions ==
  {[attributes |-> Undefined, setActive |-> TRUE],
   [attributes |-> Some("operation.type=http"), setActive |-> FALSE]}

\* what fn can do once called: resolve with a value, or throw (reject with) a value
FnOutcomes ==
  {[kind |-> "resolves", value |-> StringValue("hello-42")],
   [kind |-> "throws", value |-> ErrorValue("Test error")],
   [kind |-> "throws", value |-> StringValue("timeout")],
   [kind |-> "throws", value |-> UnconvertibleValue]}

IsError(value) == value.type \in {"Error", "TypeError"}

\* String(error) throws a TypeError on these values
StringThrows(value) == value.type = "object"

\* String(error) of a value it does not throw on
StringOf(value) == value.text

\* tracer.startSpan(name, {attributes})
NewSpan(name, attributes) ==
  [name |-> name, attributes |-> attributes, exceptions |-> <<>>,
   status |-> Undefined, ended |-> 0]

RecordException(span, value) ==
  [span EXCEPT !.exceptions = Append(@, [name |-> value.type, message |-> value.text,
                                         stack |-> value.type \o ": " \o value.text])]

SetErrorStatus(span, message) ==
  [span EXCEPT !.status = Some([code |-> "ERROR", message |-> message])]

EndSpan(span) == [span EXCEPT !.ended = @ + 1]

\* variant: the exception is never recorded
SpanAfterCatchStatusOnly(span, value) ==
  IF StringThrows(value) THEN span ELSE SetErrorStatus(span, StringOf(value))

\* the span after the catch block ran for the value thrown
SpanAfterCatch(span, value) ==
  IF IsError(value) THEN SetErrorStatus(RecordException(span, value), value.text)
  ELSE IF StringThrows(value) THEN span
  ELSE SetErrorStatus(span, StringOf(value))

\* the span operations the catch block makes, in order
EventsOfCatch(value) ==
  IF IsError(value) THEN <<"recordException", "setStatus">>
  ELSE IF StringThrows(value) THEN <<>>
  ELSE <<"setStatus">>

\* variant: the value thrown is wrapped in a new Error
CatchThrowsWrapped(value) == ErrorValue(value.text)

\* what leaves the catch block: the value caught (`throw error`), unless
\* String(error) threw first
CatchThrows(value) ==
  IF ~IsError(value) /\ StringThrows(value) THEN TypeErrorValue ELSE value

NotCalled ==
  [pc |-> "idle", args |-> <<>>, fnArgs |-> Undefined,
   fnDid |-> [kind |-> "none", value |-> NoValue],
   result |-> [kind |-> "none", value |-> NoValue],
   span |-> NewSpan("", Undefined), events |-> <<>>]

\* the call from the point where fn has settled to its end
Finished(call, outcome) ==
  IF outcome.kind = "resolves"
    THEN [call EXCEPT !.pc = "settled",
                      !.fnDid = outcome,
                      !.result = [kind |-> "resolved", value |-> outcome.value],
                      !.span = EndSpan(@),
                      !.events = @ \o <<"end">>]
  ELSE [call EXCEPT !.pc = "settled",
                    !.fnDid = outcome,
                    !.result = [kind |-> "rejected", value |-> CatchThrows(outcome.value)],
                    !.span = EndSpan(SpanAfterCatch(@, outcome.value)),
                    !.events = @ \o EventsOfCatch(outcome.value) \o <<"end">>]

\* the call up to `await fn(...args)`
Begun(args) ==
  [NotCalled EXCEPT !.pc = "pending",
                    !.args = args,
                    !.fnArgs = Some(args),
                    !.span = NewSpan(wrapped[1].name, wrapped[1].options.attributes),
                    !.events = <<"startSpan", "fn">>]

createTracedFunction(name, options) ==
  /\ wrapped = Undefined
  /\ wrapped' = Some([name |-> name, options |-> options])
  /\ UNCHANGED tcalls

\* a call of the returned function; fn returns a promise that is pending
TracedCall(i, args) ==
  /\ wrapped # Undefined
  /\ tcalls[i].pc = "idle"
  /\ tcalls' = [tcalls EXCEPT ![i] = Begun(args)]
  /\ UNCHANGED wrapped

\* a call of the returned function; fn throws before it returns a promise
TracedCallFnThrows(i, args, value) ==
  /\ wrapped # Undefined
  /\ tcalls[i].pc = "idle"
  /\ tcalls' = [tcalls EXCEPT ![i] = Finished(Begun(args), [kind |-> "throws", value |-> value])]
  /\ UNCHANGED wrapped

\* the promise fn returned settles and the call runs to its end
FnSettles(i, outcome) ==
  /\ tcalls[i].pc = "pending"
  /\ tcalls' = [tcalls EXCEPT ![i] = Finished(@, outcome)]
  /\ UNCHANGED wrapped

TracingInit ==
  /\ wrapped = Undefined
  /\ tcalls = [i \in TracedCalls |-> NotCalled]

TracingNext ==
  \/ \E name \in SpanNames, options \in TracedOptions :
       createTracedFunction(name, options) /\ UNCHANGED otherThanTracing
  \/ \E i \in TracedCalls, args \in ArgLists :
       TracedCall(i, args) /\ UNCHANGED otherThanTracing
  \/ \E i \in TracedCalls, args \in ArgLists, o \in FnOutcomes :
       o.kind = "throws" /\ TracedCallFnThrows(i, args, o.value) /\ UNCHANGED otherThanTracing
  \/ \E i \in TracedCalls, o \in FnOutcomes :
       FnSettles(i, o) /\ UNCHANGED otherThanTracing

(***************************************************************************)
(* createSpanManager (telemetry/tracing.ts).                               *)
(***************************************************************************)
MaxManagerCalls == 4   \* calls of the manager's methods made in one run

ManagerNames == {"test-span"}
AttributeValues == {"query", "insert"}
ThrownValues == {ErrorValue("Test error"), StringValue("timeout"), UnconvertibleValue}

\* tracer.startSpan(name, {attributes}) as the manager holds it
StartedSpan(name, attributes) ==
  [name |-> name, attributes |-> attributes, set |-> <<>>, events |-> <<>>,
   exceptions |-> <<>>, status |-> Undefined, ended |-> 0]

SetAttribute(span, key, value) ==
  [span EXCEPT !.set = SetMember(@, Member(key, StringValue(value)))]

RECURSIVE SetAttributes(_, _)
SetAttributes(span, attributes) ==
  IF attributes = <<>> THEN span
  ELSE SetAttributes(SetAttribute(span, attributes[1].key, attributes[1].value.text),
                     Tail(attributes))

AddEvent(span, eventName, attributes) ==
  [span EXCEPT !.events = Append(@, [name |-> eventName, attributes |-> attributes])]

ReturnedUndefined == [type |-> "undefined", index |-> 0, flag |-> FALSE]
ReturnedNull == [type |-> "null", index |-> 0, flag |-> FALSE]
ReturnedSpan(k) == [type |-> "span", index |-> k, flag |-> FALSE]
ReturnedBoolean(b) == [type |-> "boolean", index |-> 0, flag |-> b]

\* the call made, what it returned, whether it threw, and the number of
\* start() calls made since the last end() call as the caller counts them
ManagerCalled(op, returned, threw) ==
  /\ mcalls < MaxManagerCalls
  /\ manager # Undefined
  /\ mcalls' = mcalls + 1
  /\ mlast' = [op |-> op, returned |-> returned, threw |-> threw,
               startsSinceEnd |-> IF op = "start" THEN mlast.startsSinceEnd + 1
                                  ELSE IF op = "end" THEN 0
                                  ELSE mlast.startsSinceEnd]
  /\ UNCHANGED manager

createSpanManager(name, options) ==
  /\ manager = Undefined
  /\ manager' = Some([name |-> name, options |-> options])
  /\ UNCHANGED <<mspan, mcontext, spansMade, mlast, mcalls>>

start ==
  /\ ManagerCalled("start", ReturnedSpan(Len(spansMade) + 1), FALSE)
  /\ spansMade' = Append(spansMade,
                         StartedSpan(manager[1].name, manager[1].options.attributes))
  /\ mspan' = Some(Len(spansMade) + 1)
  /\ mcontext' = IF manager[1].options.setActive THEN Some(Len(spansMade) + 1) ELSE mcontext

\* variant: end() does not clear the span it holds
endKeepsSpan ==
  /\ ManagerCalled("end", ReturnedUndefined, FALSE)
  /\ IF mspan # Undefined
       THEN /\ spansMade' = [spansMade EXCEPT ![mspan[1]] = EndSpan(@)]
            /\ UNCHANGED <<mspan, mcontext>>
     ELSE UNCHANGED <<spansMade, mspan, mcontext>>

end ==
  /\ ManagerCalled("end", ReturnedUndefined, FALSE)
  /\ IF mspan # Undefined
       THEN /\ spansMade' = [spansMade EXCEPT ![mspan[1]] = EndSpan(@)]
            /\ mspan' = Undefined
            /\ mcontext' = Undefined
     ELSE UNCHANGED <<spansMade, mspan, mcontext>>

addAttribute(key, value) ==
  /\ ManagerCalled("addAttribute", ReturnedUndefined, FALSE)
  /\ IF mspan # Undefined
       THEN spansMade' = [spansMade EXCEPT ![mspan[1]] = SetAttribute(@, key, value)]
     ELSE UNCHANGED spansMade
  /\ UNCHANGED <<mspan, mcontext>>

\* attributes is undefined or an object
addAttributes(attributes) ==
  /\ ManagerCalled("addAttributes", ReturnedUndefined, FALSE)
  /\ IF mspan # Undefined /\ attributes # Undefined
       THEN spansMade' = [spansMade EXCEPT ![mspan[1]] = SetAttributes(@, attributes[1])]
     ELSE UNCHANGED spansMade
  /\ UNCHANGED <<mspan, mcontext>>

addEvent(eventName, attributes) ==
  /\ ManagerCalled("addEvent", ReturnedUndefined, FALSE)
  /\ IF mspan # Undefined
       THEN spansMade' = [spansMade EXCEPT ![mspan[1]] = AddEvent(@, eventName, attributes)]
     ELSE UNCHANGED spansMade
  /\ UNCHANGED <<mspan, mcontext>>

\* recordError(error); on an active manager String(error) is evaluated for
\* a value that is no Error and may throw
recordErrorOnSpan(value) ==
  /\ ManagerCalled("recordError", ReturnedUndefined,
                   mspan # Undefined /\ ~IsError(value) /\ StringThrows(value))
  /\ IF mspan # Undefined
       THEN spansMade' = [spansMade EXCEPT ![mspan[1]] = SpanAfterCatch(@, value)]
     ELSE UNCHANGED spansMade
  /\ UNCHANGED <<mspan, mcontext>>

getSpan ==
  /\ ManagerCalled("getSpan",
                   IF mspan = Undefined THEN ReturnedNull ELSE ReturnedSpan(mspan[1]), FALSE)
  /\ UNCHANGED <<mspan, mcontext, spansMade>>

isActive ==
  /\ ManagerCalled("isActive", ReturnedBoolean(mspan # Undefined), FALSE)
  /\ UNCHANGED <<mspan, mcontext, spansMade>>

ManagerInit ==
  /\ manager = Undefined
  /\ mspan = Undefined
  /\ mcontext = Undefined
  /\ spansMade = <<>>
  /\ mlast = [op |-> "none", returned |-> ReturnedUndefined, threw |-> FALSE,
              startsSinceEnd |-> 0]
  /\ mcalls = 0

AttributeObjects ==
  {Undefined, Some(<<>>), Some(<<Member("db.operation", StringValue("query"))>>)}

ManagerNext ==
  \/ \E name \in ManagerNames, options \in TracedOptions :
       createSpanManager(name, options) /\ UNCHANGED otherThanManager
  \/ start /\ UNCHANGED otherThanManager
  \/ end /\ UNCHANGED otherThanManager
  \/ \E v \in AttributeValues :
       addAttribute("db.operation", v) /\ UNCHANGED otherThanManager
  \/ \E a \in AttributeObjects :
       addAttributes(a) /\ UNCHANGED otherThanManager
  \/ \E a \in AttributeObjects :
       addEvent("row-retrieved", a) /\ UNCHANGED otherThanManager
  \/ \E e \in ThrownValues :
       recordErrorOnSpan(e) /\ UNCHANGED otherThanManager
  \/ getSpan /\ UNCHANGED otherThanManager
  \/ isActive /\ UNCHANGED otherThanManager

(***************************************************************************)
(* initializeTelemetry (telemetry/index.ts): reads Deno.args and the       *)
(* OTEL_DENO environment variable when it is called, writes Logger records *)
(* of component "telemetry" and the two lines of setupOpenTelemetry to the *)
(* console, and returns an object holding getLogger.                       *)
(***************************************************************************)
MaxArgs == 2

MaxTelemetryCalls == 2

\* elements of Deno.args
ArgWords == {"--unstable-otel", "--allow-net", "--unstable"}

DenoArgs == UNION {[1..n -> ArgWords] : n \in 0..MaxArgs}

\* Deno.env.get('OTEL_DENO'): undefined when the variable is not set
OtelDenoValues == {Undefined, Some("true"), Some("false"), Some("TRUE"), Some("1")}

TelemetryComponents == {"test-component", "search"}

\* Array.prototype.includes
Includes(list, word) == \E i \in 1..Len(list) : list[i] = word

IsOtelFlagPresent(args) == Includes(args, "--unstable-otel")

IsOtelEnvSetWhenDefined(value) == value # Undefined

IsOtelEnvSet(value) == value = Some("true")

BooleanValue(b) == [type |-> "boolean", text |-> IF b THEN "true" ELSE "false"]

TextInitializing ==
  <<"I", "n", "i", "t", "i", "a", "l", "i", "z", "i", "n", "g", " ", "t",
    "e", "l", "e", "m", "e", "t", "r", "y", " ", "s", "y", "s", "t", "e",
    "m">>

TextOtelNotConfigured ==
  <<"O", "p", "e", "n", "T", "e", "l", "e", "m", "e", "t", "r", "y", " ",
    "i", "s", " ", "n", "o", "t", " ", "f", "u", "l", "l", "y", " ", "c",
    "o", "n", "f", "i", "g", "u", "r", "e", "d", ".", " ", "S", "o", "m",
    "e", " ", "t", "e", "l", "e", "m", "e", "t", "r", "y", " ", "f", "e",
    "a", "t", "u", "r", "e", "s", " ", "w", "i", "l", "l", " ", "b", "e",
    " ", "l", "i", "m", "i", "t", "e", "d", ".">>

TextToEnableOtel ==
  <<"T", "o", " ", "e", "n", "a", "b", "l", "e", " ", "O", "p", "e", "n",
    "T", "e", "l", "e", "m", "e", "t", "r", "y", ",", " ", "r", "u", "n",
    " ", "w", "i", "t", "h", ":", " ", "O", "T", "E", "L", "_", "D", "E",
    "N", "O", "=", "t", "r", "u", "e", " ", "d", "e", "n", "o", " ", "r",
    "u", "n", " ", "-", "-", "u", "n", "s", "t", "a", "b", "l", "e", "-",
    "o", "t", "e", "l", " ", ".", ".", ".">>

TextOtelEnabled ==
  <<"O", "p", "e", "n", "T", "e", "l", "e", "m", "e", "t", "r", "y", " ",
    "i", "s", " ", "e", "n", "a", "b", "l", "e", "d">>

TextUsingBuiltIn ==
  <<"U", "s", "i", "n", "g", " ", "D", "e", "n", "o", "'", "s", " ", "b",
    "u", "i", "l", "t", "-", "i", "n", " ", "O", "p", "e", "n", "T", "e",
    "l", "e", "m", "e", "t", "r", "y", " ", "s", "u", "p", "p", "o", "r",
    "t">>

TextMakeSure ==
  <<"M", "a", "k", "e", " ", "s", "u", "r", "e", " ", "t", "o", " ", "r",
    "u", "n", " ", "w", "i", "t", "h", ":", " ", "O", "T", "E", "L", "_",
    "D", "E", "N", "O", "=", "t", "r", "u", "e", " ", "d", "e", "n", "o",
    " ", "r", "u", "n", " ", "-", "-", "u", "n", "s", "t", "a", "b", "l",
    "e", "-", "o", "t", "e", "l", " ", ".", ".", ".">>

TextLangSmithNotConfigured ==
  <<"L", "a", "n", "g", "S", "m", "i", "t", "h", " ", "i", "s", " ", "n",
    "o", "t", " ", "f", "u", "l", "l", "y", " ", "c", "o", "n", "f", "i",
    "g", "u", "r", "e", "d", ".", " ", "L", "L", "M", " ", "t", "r", "a",
    "c", "i", "n", "g", " ", "w", "i", "l", "l", " ", "b", "e", " ", "l",
    "i", "m", "i", "t", "e", "d", ".">>

TextLangSmithConfigured ==
  <<"L", "a", "n", "g", "S", "m", "i", "t", "h", " ", "i", "s", " ", "c",
    "o", "n", "f", "i", "g", "u", "r", "e", "d">>

TextInitialized ==
  <<"T", "e", "l", "e", "m", "e", "t", "r", "y", " ", "s", "y", "s", "t",
    "e", "m", " ", "i", "n", "i", "t", "i", "a", "l", "i", "z", "e", "d">>

langsmithSetupInstructions ==
  <<"\n", "T", "o", " ", "c", "o", "n", "f", "i", "g", "u", "r", "e", " ",
    "L", "a", "n", "g", "S", "m", "i", "t", "h", ",", " ", "s", "e", "t",
    " ", "t", "h", "e", " ", "f", "o", "l", "l", "o", "w", "i", "n", "g",
    " ", "e", "n", "v", "i", "r", "o", "n", "m", "e", "n", "t", " ", "v",
    "a", "r", "i", "a", "b", "l", "e", "s", ":", "\n", "-", " ", "L", "A",
    "N", "G", "C", "H", "A", "I", "N", "_", "A", "P", "I", "_", "K", "E",
    "Y", ":", " ", "Y", "o", "u", "r", " ", "L", "a", "n", "g", "S", "m",
    "i", "t", "h", " ", "A", "P", "I", " ", "k", "e", "y", "\n", "-", " ",
    "L", "A", "N", "G", "C", "H", "A", "I", "N", "_", "P", "R", "O", "J",
    "E", "C", "T", ":", " ", "Y", "o", "u", "r", " ", "L", "a", "n", "g",
    "S", "m", "i", "t", "h", " ", "p", "r", "o", "j", "e", "c", "t", " ",
    "n", "a", "m", "e", "\n">>

verifyLangSmithEnv == FALSE

\* one step of initializeTelemetry that writes to the console: a call of
\* the module's logger, or a plain console.log
LoggerStep(level, message, details) ==
  [logger |-> TRUE, level |-> level, message |-> message, details |-> details]

ConsoleLogStep(line) ==
  [logger |-> FALSE, level |-> "INFO", message |-> line, details |-> <<>>]

setupOpenTelemetry == <<ConsoleLogStep(TextUsingBuiltIn), ConsoleLogStep(TextMakeSure)>>

TelemetrySteps(args, otelDeno) ==
  LET isOtelFlagPresent == IsOtelFlagPresent(args)
      isOtelEnvSet == IsOtelEnvSet(otelDeno)
  IN <<LoggerStep("INFO", TextInitializing, <<>>)>>
     \o (IF ~isOtelFlagPresent \/ ~isOtelEnvSet
           THEN <<LoggerStep("WARN", TextOtelNotConfigured,
                             <<Member("isOtelFlagPresent", BooleanValue(isOtelFlagPresent)),
                               Member("isOtelEnvSet", BooleanValue(isOtelEnvSet))>>),
                  LoggerStep("INFO", TextToEnableOtel, <<>>)>>
         ELSE <<LoggerStep("INFO", TextOtelEnabled, <<>>)>>)
     \o setupOpenTelemetry
     \o (IF ~verifyLangSmithEnv
           THEN <<LoggerStep("WARN", TextLangSmithNotConfigured, <<>>),
                  LoggerStep("INFO", langsmithSetupInstructions, <<>>)>>
         ELSE <<LoggerStep("INFO", TextLangSmithConfigured, <<>>)>>)
     \o <<LoggerStep("INFO", TextInitialized, <<>>)>>

\* what a step writes: Logger._log writes the serialized record to the
\* stream of its level, console.log writes the line
ConsoleWrite(step, timestamp) ==
  IF step.logger
    THEN [stream |-> StreamOf(step.level),
          record |-> Stringify(LogRecord(timestamp, step.level, step.message,
                                         "telemetry", step.details)),
          line |-> <<>>]
  ELSE [stream |-> "console.log", record |-> <<>>, line |-> step.message]

StepThrows(step, timestamp) ==
  /\ step.logger
  /\ StringifyThrows(LogRecord(timestamp, step.level, step.message,
                               "telemetry", step.details))

\* the steps in order up to the first one that throws
RECURSIVE RunSteps(_, _)
RunSteps(steps, timestamp) ==
  IF steps = <<>> THEN [console |-> <<>>, threw |-> FALSE]
  ELSE IF StepThrows(steps[1], timestamp) THEN [console |-> <<>>, threw |-> TRUE]
  ELSE LET rest == RunSteps(Tail(steps), timestamp)
       IN [console |-> <<ConsoleWrite(steps[1], timestamp)>> \o rest.console,
           threw |-> rest.threw]

NotInitialized ==
  [calls |-> 0, args |-> <<>>, otelDeno |-> Undefined, console |-> <<>>,
   returned |-> FALSE, threw |-> FALSE]

initializeTelemetry(args, otelDeno, timestamp) ==
  /\ telemetry.calls < MaxTelemetryCalls
  /\ LET ran == RunSteps(TelemetrySteps(args, otelDeno), timestamp)
     IN telemetry' = [calls |-> telemetry.calls + 1,
                      args |-> args,
                      otelDeno |-> otelDeno,
                      console |-> ran.console,
                      returned |-> ~ran.threw,
                      threw |-> ran.threw]
  /\ UNCHANGED gotLogger

\* getLogger of the returned object: new Logger(component)
getLogger(component) ==
  /\ telemetry.returned
  /\ gotLogger' = Some([class |-> "Logger", component |-> component])
  /\ UNCHANGED telemetry

TelemetryInit ==
  /\ telemetry = NotInitialized
  /\ gotLogger = Undefined

TelemetryNext ==
  \/ \E args \in DenoArgs, otelDeno \in OtelDenoValues, timestamp \in IsoTimestamps :
       initializeTelemetry(args, otelDeno, timestamp) /\ UNCHANGED otherThanTelemetry
  \/ \E component \in TelemetryComponents :
       getLogger(component) /\ UNCHANGED otherThanTelemetry

(***************************************************************************)
(* Recorder calls made by concurrently running asynchronous tasks.  A task *)
(* runs up to its outbound call and is suspended there (await); when it is *)
(* resumed it calls recordTokenUsage or recordError.  Both functions are   *)
(* synchronous (no await between activeQueries.get and activeQueries.set), *)
(* so a call runs to completion before any other task is resumed.          *)
(***************************************************************************)
Tasks == {"t1", "t2"}

AccumulatingOps == {"recordTokenUsage", "recordError"}

NotDone ==
  [op |-> "none", queryId |-> "", value |-> 0, tracked |-> FALSE,
   before |-> 0, seq |-> 0, overlapped |-> FALSE]

\* the number an accumulating recorder reads and writes
Accumulated(queryId, op) ==
  IF ~MapHas(activeQueries, queryId) THEN 0
  ELSE LET stored == IF op = "recordTokenUsage" THEN activeQueries[queryId].tokenUsage
                     ELSE activeQueries[queryId].errorCount
       IN IF stored = Undefined THEN 0 ELSE stored[1]

\* the program starts tracking an id before the tasks run
TaskTrack(queryId, queryText) ==
  /\ calls < MaxCalls
  /\ \A t \in Tasks : taskPc[t] = "idle"
  /\ ~MapHas(activeQueries, queryId)
  /\ startQueryTracking(queryId, queryText)
  /\ UNCHANGED taskVars

\* a recorder call made before the tasks run
TaskPrior(queryId, op, value) ==
  /\ calls < MaxCalls
  /\ \A t \in Tasks : taskPc[t] = "idle"
  /\ MapHas(activeQueries, queryId)
  /\ IF op = "recordTokenUsage"
       THEN recordTokenUsage(queryId, value)
       ELSE \E e \in Errors : recordError(queryId, e)
  /\ UNCHANGED taskVars

\* the task reaches its await and is suspended
TaskSuspend(t) ==
  /\ taskPc[t] = "idle"
  /\ taskPc' = [taskPc EXCEPT ![t] = "suspended"]
  /\ UNCHANGED <<trackerVars, taskDid>>

\* the task is resumed and makes its recorder call
TaskResume(t, queryId, op, value) ==
  /\ taskPc[t] = "suspended"
  /\ taskPc' = [taskPc EXCEPT ![t] = "done"]
  /\ taskDid' = [taskDid EXCEPT ![t] =
                   [op |-> op, queryId |-> queryId,
                    value |-> IF op = "recordTokenUsage" THEN value ELSE 1,
                    tracked |-> MapHas(activeQueries, queryId),
                    before |-> Accumulated(queryId, op),
                    seq |-> calls,
                    overlapped |-> \E u \in Tasks \ {t} : taskPc[u] = "suspended"]]
  /\ IF op = "recordTokenUsage"
       THEN recordTokenUsage(queryId, value)
       ELSE \E e \in Errors : recordError(queryId, e)

TaskInit ==
  /\ taskPc = [t \in Tasks |-> "idle"]
  /\ taskDid = [t \in Tasks |-> NotDone]

TaskNext ==
  \/ \E q \in QueryIds, text \in QueryTexts :
       TaskTrack(q, text) /\ UNCHANGED otherThanTasks
  \/ \E q \in QueryIds, op \in AccumulatingOps, v \in Values :
       TaskPrior(q, op, v) /\ UNCHANGED otherThanTasks
  \/ \E t \in Tasks :
       TaskSuspend(t) /\ UNCHANGED otherThanTasks
  \/ \E t \in Tasks, q \in QueryIds, op \in AccumulatingOps, v \in Values :
       TaskResume(t, q, op, v) /\ UNCHANGED otherThanTasks

(***************************************************************************)
(* The tracker with object identity.  activeQueries holds references to    *)
(* QueryMetrics objects: a recorder mutates the object the Map refers to,  *)
(* and finalizeQueryTracking returns that same object after it has removed *)
(* the entry (monitoring.ts returns `query`, it makes no copy).            *)
(***************************************************************************)
MaxHeapCalls == 4

HeapText == "test query"

HeapValues == {1}

FieldRecorders == {"recordSearchLatency", "recordDocumentsFetched",
                   "recordTokenUsage", "recordSourceDiversity", "recordError"}

\* activeQueries.get(queryId) of a tracked id
Deref(queryId) == objects[entries[queryId]]

\* what the recorder assigns to the object it got
Updated(op, query, value) ==
  CASE op = "recordSearchLatency" -> WithSearchLatency(query, value)
    [] op = "recordDocumentsFetched" -> WithDocumentFetchCount(query, value)
    [] op = "recordTokenUsage" -> WithTokenUsage(query, value)
    [] op = "recordSourceDiversity" -> WithSourceDiversity(query, value)
    [] op = "recordError" -> WithErrorCount(query)

HeapCalled(op, queryId) ==
  hlast' = [op |-> op, queryId |-> queryId, n |-> hlast.n + 1, at |-> clock]

\* startQueryTracking: activeQueries.set(queryId, { ... }) with a new object
HeapStart(queryId, queryText) ==
  /\ hlast.n < MaxHeapCalls
  /\ objects' = Append(objects, NewQueryMetrics(queryId, queryText, clock))
  /\ entries' = MapSet(entries, queryId, Len(objects) + 1)
  /\ hrecorded' = [hrecorded EXCEPT ![queryId] =
                     [noted |-> Noted(@.noted, [op |-> "startQueryTracking",
                                                queryId |-> queryId,
                                                text |-> queryText, value |-> 0]),
                      replaced |-> IF MapHas(entries, queryId)
                                     THEN Some(Deref(queryId)) ELSE Undefined]]
  /\ HeapCalled("startQueryTracking", queryId)
  /\ UNCHANGED <<held, clock>>

\* a recorder: const query = activeQueries.get(queryId); if (query) {
\* query.<field> = ...; activeQueries.set(queryId, query); }
HeapRecord(op, queryId, value) ==
  /\ hlast.n < MaxHeapCalls
  /\ IF MapHas(entries, queryId)
       THEN /\ objects' = [objects EXCEPT ![entries[queryId]] = Updated(op, @, value)]
            /\ entries' = MapSet(entries, queryId, entries[queryId])
       ELSE UNCHANGED <<objects, entries>>
  /\ hrecorded' = [hrecorded EXCEPT ![queryId].noted =
                     Noted(@, [op |-> op, queryId |-> queryId, text |-> "",
                               value |-> value])]
  /\ HeapCalled(op, queryId)
  /\ UNCHANGED <<held, clock>>

\* finalizeQueryTracking: the object is assigned its totalProcessingTime,
\* the entry is deleted and the object itself is returned
HeapFinalize(queryId) ==
  /\ hlast.n < MaxHeapCalls
  /\ IF MapHas(entries, queryId)
       THEN LET ref == entries[queryId]
                query == WithTotalProcessingTime(objects[ref], clock)
            IN /\ objects' = [objects EXCEPT ![ref] = query]
               /\ entries' = MapDelete(entries, queryId)
               /\ held' = Append(held, [ref |-> ref, copy |-> query,
                                        asked |-> hrecorded[queryId]])
       ELSE UNCHANGED <<objects, entries, held>>
  /\ hrecorded' = [hrecorded EXCEPT ![queryId].noted =
                     Noted(@, [op |-> "finalizeQueryTracking", queryId |-> queryId,
                               text |-> "", value |-> 0])]
  /\ HeapCalled("finalizeQueryTracking", queryId)
  /\ UNCHANGED clock

HeapTick ==
  /\ clock < MaxClock
  /\ clock' = clock + 1
  /\ UNCHANGED <<objects, entries, held, hlast, hrecorded>>

HeapInit ==
  /\ objects = <<>>
  /\ entries = <<>>
  /\ held = <<>>
  /\ clock = 0
  /\ hlast = [op |-> "none", queryId |-> "", n |-> 0, at |-> 0]
  /\ hrecorded = [q \in QueryIds |-> [noted |-> NothingRecorded(FALSE, ""),
                                      replaced |-> Undefined]]

HeapNext ==
  \/ \E q \in QueryIds : HeapStart(q, HeapText) /\ UNCHANGED otherThanHeap
  \/ \E op \in FieldRecorders, q \in QueryIds, v \in HeapValues :
       HeapRecord(op, q, v) /\ UNCHANGED otherThanHeap
  \/ \E q \in QueryIds : HeapFinalize(q) /\ UNCHANGED otherThanHeap
  \/ HeapTick /\ UNCHANGED otherThanHeap

(***************************************************************************)
(* The scripted scenario of the spec's testable property 6: five calls for *)
(* "q1", with time passing and calls for another id in between.            *)
(***************************************************************************)
ScenarioCall(n) ==
  /\ scenarioPc = n - 1
  /\ scenarioPc' = n
  /\ UNCHANGED otherThanScenario

ScenarioStart ==
  ScenarioCall(1) /\ startQueryTracking("q1", "what is X")

ScenarioDocuments ==
  ScenarioCall(2) /\ recordDocumentsFetched("q1", 3)

ScenarioTokensFirst ==
  ScenarioCall(3) /\ recordTokenUsage("q1", 100)

ScenarioTokensSecond ==
  ScenarioCall(4) /\ recordTokenUsage("q1", 50)

ScenarioFinalize ==
  ScenarioCall(5) /\ finalizeQueryTracking("q1")

ScenarioNoise ==
  /\ calls - scenarioPc < MaxNoise
  /\ \/ \E t \in QueryTexts : startQueryTracking("q2", t)
     \/ \E v \in Values : recordSearchLatency("q2", v)
     \/ \E v \in Values : recordDocumentsFetched("q2", v)
     \/ \E v \in Values : recordTokenUsage("q2", v)
     \/ \E v \in Values : recordSourceDiversity("q2", v)
     \/ \E e \in Errors : recordError("q2", e)
     \/ finalizeQueryTracking("q2")
  /\ UNCHANGED otherThanTracker

\* the scenario runs with no researcher invocation in progress
ScenarioNext ==
  \/ ScenarioStart
  \/ ScenarioDocuments
  \/ ScenarioTokensFirst
  \/ ScenarioTokensSecond
  \/ ScenarioFinalize
  \/ ScenarioNoise
  \/ Tick /\ UNCHANGED otherThanTracker

(***************************************************************************)
(* Specifications: one per component, over the same initial state.         *)
(***************************************************************************)
Init ==
  /\ TrackerInit
  /\ ScenarioInit
  /\ ResearcherInit
  /\ SearchInit
  /\ TracedInit
  /\ LoggerInit
  /\ TracingInit
  /\ ManagerInit
  /\ TelemetryInit
  /\ TaskInit
  /\ HeapInit

Next == TrackerNext

Spec == Init /\ [][Next]_vars

ScenarioSpec == Init /\ [][ScenarioNext]_vars

ResearcherSpec == Init /\ [][ResearcherNext]_vars

SearchSpec == Init /\ [][SearchNext]_vars

LoggerSpec == Init /\ [][LoggerNext]_vars

TracingSpec == Init /\ [][TracingNext]_vars

ManagerSpec == Init /\ [][ManagerNext]_vars

TelemetrySpec == Init /\ [][TelemetryNext]_vars

TaskSpec == Init /\ [][TaskNext]_vars

HeapSpec == Init /\ [][HeapNext]_vars

TrackedSearchSpec == Init /\ [][TrackedSearchNext]_vars

(***************************************************************************)
(* Reading the caller's side.                                              *)
(***************************************************************************)
RecorderOps == {"recordSearchLatency", "recordDocumentsFetched", "recordTokenUsage",
                "recordSourceDiversity", "recordError"}

\* the most recent start/finalize call for the id was a start
StartedNotFinalized(q) == recorded[q].started /\ recorded[q].finalizeCalls = 0

\* the last call was the first finalize of the id since its start
JustFinalized(q) ==
  /\ lastCall.op = "finalizeQueryTracking"
  /\ lastCall.queryId = q
  /\ recorded[q].started
  /\ recorded[q].finalizeCalls = 1

(***************************************************************************)
(* C1: for a started id, finalizeQueryTracking returns a record whose      *)
(* queryId and queryText are the ones given to startQueryTracking and      *)
(* whose searchLatency, documentFetchCount, tokenUsage, sourceDiversity    *)
(* and errorCount are exactly what the recorder calls since the start      *)
(* recorded: the last value for the overwritten fields, the sum for        *)
(* tokenUsage, the number of recordError calls for errorCount; a field     *)
(* never recorded is unset.                                                *)
(***************************************************************************)
FinalizeReturnsWhatWasRecorded ==
  \A q \in QueryIds :
    JustFinalized(q) =>
      /\ ret # Undefined
      /\ ret[1].queryId = q
      /\ ret[1].queryText = recorded[q].text
      /\ ret[1].searchLatency = recorded[q].searchLatency
      /\ ret[1].documentFetchCount = recorded[q].documentFetchCount
      /\ ret[1].tokenUsage = recorded[q].tokenUsage
      /\ ret[1].sourceDiversity = recorded[q].sourceDiversity
      /\ ret[1].errorCount = Some(recorded[q].errors)

FinalizeAfterTwoRecorders ==
  \E q \in QueryIds :
    /\ JustFinalized(q)
    /\ ret # Undefined
    /\ ret[1].queryText = "test query"
    /\ ret[1].sourceDiversity = Some(1)
    /\ ret[1].documentFetchCount = Some(0)
    /\ ret[1].searchLatency = Undefined
    /\ ret[1].errorCount = Some(0)

(***************************************************************************)
(* C2: in every reachable state the map holds an entry for an id exactly   *)
(* when the most recent startQueryTracking/finalizeQueryTracking call for  *)
(* that id was a start; no other call adds or removes an entry.            *)
(***************************************************************************)
TrackedIffLastLifecycleCallWasStart ==
  \A q \in QueryIds : MapHas(activeQueries, q) <=> StartedNotFinalized(q)

StartedRecordedFinalizedAbsent ==
  /\ MapHas(activeQueries, "q1")
  /\ activeQueries["q1"].searchLatency = Some(1)
  /\ ~MapHas(activeQueries, "q2")
  /\ lastCall = [op |-> "finalizeQueryTracking", queryId |-> "q2", text |-> "", value |-> 0]
  /\ ret # Undefined

(***************************************************************************)
(* C3: finalizeQueryTracking on an id that is not tracked returns          *)
(* undefined, writes exactly one warning, raises nothing and leaves the    *)
(* map as it was.                                                          *)
(***************************************************************************)
FinalizeUnknownStep ==
  /\ calls' = calls + 1
  /\ lastCall'.op = "finalizeQueryTracking"
  /\ ~MapHas(activeQueries, lastCall'.queryId)

OneWarning(out) ==
  /\ Len(out) = 1
  /\ out[1].level = "WARN"
  /\ out[1].stream = "console.warn"

FinalizeUnknownReturnsUndefined ==
  [][FinalizeUnknownStep =>
       /\ ret' = Undefined
       /\ ~thrown'
       /\ OneWarning(emitted')
       /\ activeQueries' = activeQueries]_vars

SecondFinalizeReturnedUndefined ==
  \E q \in QueryIds :
    /\ lastCall.op = "finalizeQueryTracking"
    /\ lastCall.queryId = q
    /\ recorded[q].started
    /\ recorded[q].finalizeCalls = 2
    /\ ret = Undefined
    /\ OneWarning(emitted)

(***************************************************************************)
(* C4: a recorder call for an id that is not tracked writes exactly one    *)
(* warning, raises nothing, creates no map entry and leaves every          *)
(* existing record as it was.                                              *)
(***************************************************************************)
RecorderUnknownStep ==
  /\ calls' = calls + 1
  /\ lastCall'.op \in RecorderOps
  /\ ~MapHas(activeQueries, lastCall'.queryId)

RecorderOnUnknownIdIsDropped ==
  [][RecorderUnknownStep =>
       /\ OneWarning(emitted')
       /\ ~thrown'
       /\ activeQueries' = activeQueries]_vars

RecorderDroppedBesideTrackedId ==
  /\ lastCall.op \in RecorderOps
  /\ lastCall.queryId = "q2"
  /\ ~MapHas(activeQueries, "q2")
  /\ MapHas(activeQueries, "q1")
  /\ activeQueries["q1"].tokenUsage = Some(1)
  /\ OneWarning(emitted)

(***************************************************************************)
(* C5: recordTokenUsage accumulates: for a started id the stored           *)
(* tokenUsage, and the tokenUsage finalizeQueryTracking returns, is the    *)
(* sum of the values passed to recordTokenUsage since the start.           *)
(***************************************************************************)
TokenUsageIsSumOfRecorded ==
  \A q \in QueryIds :
    /\ StartedNotFinalized(q) /\ MapHas(activeQueries, q) =>
         activeQueries[q].tokenUsage = recorded[q].tokenUsage
    /\ JustFinalized(q) /\ ret # Undefined =>
         ret[1].tokenUsage = recorded[q].tokenUsage

TwoTokenCallsSummed ==
  \E q \in QueryIds :
    /\ JustFinalized(q)
    /\ recorded[q].tokenCalls = 2
    /\ ret # Undefined
    /\ ret[1].tokenUsage = Some(2)

(***************************************************************************)
(* C6: for a tracked id errorCount is 0 right after startQueryTracking     *)
(* and in every reachable state equals the number of recordError calls     *)
(* made for the id since its most recent start.                            *)
(***************************************************************************)
ErrorCountIsNumberOfRecordErrorCalls ==
  \A q \in QueryIds :
    StartedNotFinalized(q) /\ MapHas(activeQueries, q) =>
      activeQueries[q].errorCount = Some(recorded[q].errors)

TwoErrorsCounted ==
  \E q \in QueryIds :
    /\ MapHas(activeQueries, q)
    /\ recorded[q].errors = 2
    /\ activeQueries[q].errorCount = Some(2)

(***************************************************************************)
(* C7: after startQueryTracking("q1", "what is X"),                        *)
(* recordDocumentsFetched("q1", 3), recordTokenUsage("q1", 100),           *)
(* recordTokenUsage("q1", 50), the call finalizeQueryTracking("q1")        *)
(* returns a record with documentFetchCount 3, tokenUsage 150,             *)
(* errorCount 0 and a defined totalProcessingTime that is at least 0 (and  *)
(* no more than the time that has passed on the clock).                    *)
(***************************************************************************)
ScenarioFinalized ==
  /\ scenarioPc = 5
  /\ lastCall.op = "finalizeQueryTracking"
  /\ lastCall.queryId = "q1"

ScenarioResult ==
  ScenarioFinalized =>
    /\ ret # Undefined
    /\ ret[1].queryId = "q1"
    /\ ret[1].queryText = "what is X"
    /\ ret[1].documentFetchCount = Some(3)
    /\ ret[1].tokenUsage = Some(150)
    /\ ret[1].errorCount = Some(0)
    /\ ret[1].totalProcessingTime # Undefined
    /\ ret[1].totalProcessingTime[1] >= 0
    /\ ret[1].totalProcessingTime[1] <= now

ScenarioFinalizedAfterTimePassed ==
  /\ ScenarioFinalized
  /\ ret # Undefined
  /\ ret[1].totalProcessingTime = Some(1)
  /\ MapHas(activeQueries, "q2")

(***************************************************************************)
(* C8: every invocation of simpleResearcher that completes does so by      *)
(* returning a non-empty string; it never rejects, whatever the chat       *)
(* client does, including failing when it is constructed.                  *)
(***************************************************************************)
Completed(i) == rpc[i] \in {"done", "rejected"}

ResearcherAlwaysReturnsNonEmptyString ==
  \A i \in Invocations :
    Completed(i) =>
      /\ rpc[i] = "done"
      /\ result[i] # Undefined
      /\ result[i][1] # ""

(***************************************************************************)
(* C9: an invocation whose chat call was made returns the error fallback   *)
(* string when the chat call throws, the not-found fallback string when    *)
(* the chat call returns empty content, and the generated content          *)
(* unchanged otherwise.                                                    *)
(***************************************************************************)
ResultFollowsChatOutcome ==
  \A i \in Invocations :
    chatOutcome[i].kind # "none" =>
      /\ rpc[i] = "done"
      /\ result[i] =
           IF chatOutcome[i].kind = "throw"
             THEN Some("Sorry, I encountered an error while generating your answer.")
           ELSE IF chatOutcome[i].content = ""
             THEN Some("Sorry, I couldn't find an answer.")
           ELSE Some(chatOutcome[i].content)

AllThreeChatOutcomesSeen ==
  /\ chatOutcome[1] = [kind |-> "content", content |-> ""]
  /\ result[1] = Some(NotFoundFallback)
  /\ chatOutcome[2].kind = "throw"
  /\ result[2] = Some(ErrorFallback)

(***************************************************************************)
(* C10: searchAndFormatResults returns exactly "No results found." when    *)
(* search gave an empty list; when search gave N >= 1 results the text it  *)
(* returns contains "Found N results" and, for every result in order, a    *)
(* line with its 1-based number and title followed by a line with its URL. *)
(***************************************************************************)
Matches(text, piece, at) ==
  /\ at + Len(piece) <= Len(text)
  /\ SubSeq(text, at + 1, at + Len(piece)) = piece

Contains(text, piece) == \E at \in 0..Len(text) : Matches(text, piece, at)

RECURSIVE ContainsInOrder(_, _, _)
ContainsInOrder(text, pieces, from) ==
  IF pieces = <<>> THEN TRUE
  ELSE \E at \in from..Len(text) :
         /\ Matches(text, pieces[1], at)
         /\ ContainsInOrder(text, Tail(pieces), at + Len(pieces[1]))

NumberedTitleAndUrl(results) ==
  [i \in 1..Len(results) |->
     NumberText(i) \o <<".", " ", "\"">> \o results[i].title \o <<"\"", "\n">>
     \o <<" ", " ", " ", "U", "R", "L", ":", " ">> \o results[i].url \o <<"\n">>]

FormattedAList ==
  /\ scall.op = "searchAndFormatResults"
  /\ scall.phase = "done"
  /\ found.kind = "list"

FormatMatchesResults ==
  FormattedAList =>
    /\ sret.kind = "text"
    /\ IF found.list = <<>>
         THEN sret.text = <<"N", "o", " ", "r", "e", "s", "u", "l", "t", "s", " ",
                            "f", "o", "u", "n", "d", ".">>
         ELSE /\ Contains(sret.text,
                   <<"F", "o", "u", "n", "d", " ">> \o NumberText(Len(found.list))
                   \o <<" ", "r", "e", "s", "u", "l", "t", "s">>)
              /\ ContainsInOrder(sret.text, NumberedTitleAndUrl(found.list), 0)

FormattedTwoLiveResults ==
  /\ FormattedAList
  /\ networkCalls = 1
  /\ Len(found.list) = 2
  /\ found.list[1].title # found.list[2].title
  /\ sret.kind = "text"

(***************************************************************************)
(* C20: recordSearchLatency, recordDocumentsFetched and                    *)
(* recordSourceDiversity overwrite: right after such a call on a tracked   *)
(* id the field holds the argument of that call, the stored fields hold    *)
(* the argument of the last call of their own recorder since the most      *)
(* recent start (unset when there was none), and finalizeQueryTracking     *)
(* reports those values, whatever earlier calls and other recorders did.   *)
(***************************************************************************)
OverwrittenFields(query) ==
  <<query.searchLatency, query.documentFetchCount, query.sourceDiversity>>

LastRecordedWins ==
  \A q \in QueryIds :
    /\ MapHas(activeQueries, q) =>
         /\ OverwrittenFields(activeQueries[q]) = OverwrittenFields(recorded[q])
         /\ (lastCall.queryId = q /\ lastCall.op = "recordSearchLatency") =>
              activeQueries[q].searchLatency = Some(lastCall.value)
         /\ (lastCall.queryId = q /\ lastCall.op = "recordDocumentsFetched") =>
              activeQueries[q].documentFetchCount = Some(lastCall.value)
         /\ (lastCall.queryId = q /\ lastCall.op = "recordSourceDiversity") =>
              activeQueries[q].sourceDiversity = Some(lastCall.value)
    /\ JustFinalized(q) =>
         /\ ret # Undefined
         /\ OverwrittenFields(ret[1]) = OverwrittenFields(recorded[q])

FinalizedAfterOverwrite ==
  \E q \in QueryIds :
    /\ JustFinalized(q)
    /\ recorded[q].overwritten
    /\ ret # Undefined
    /\ ret[1].documentFetchCount = Some(1)

(***************************************************************************)
(* C12: constructing without testMode when the tool cannot be created      *)
(* throws, except when DENO_ENV is 'test': then construction succeeds and   *)
(* the instance is in test mode; constructing with testMode: true never    *)
(* throws and gives an instance in test mode with no tool.  Construction   *)
(* throws in no other case.                                                *)
(***************************************************************************)
ConstructionThrew == svc.constructed = "failed"

InTestModeWithoutTool ==
  /\ svc.constructed = "ready"
  /\ svc.isTestMode
  /\ ~svc.hasTool

ConstructionFollowsOptionsAndEnvironment ==
  constructedWith # Undefined =>
    LET with == constructedWith[1]
    IN /\ with.testMode => InTestModeWithoutTool
       /\ (~with.testMode /\ ~with.toolCreated /\ with.denoEnvTest) => InTestModeWithoutTool
       /\ (~with.testMode /\ ~with.toolCreated /\ ~with.denoEnvTest) => ConstructionThrew
       /\ (~with.testMode /\ with.toolCreated) => svc.constructed = "ready" /\ svc.hasTool

ConstructedInTestEnvironmentWithoutCredential ==
  /\ constructedWith =
       Some([testMode |-> FALSE, toolCreated |-> FALSE, denoEnvTest |-> TRUE])
  /\ InTestModeWithoutTool
  /\ scall.phase = "done"
  /\ found.kind = "list"

(***************************************************************************)
(* C13: a search made in test mode makes no call of the tool and gives     *)
(* the list most recently passed to setMockResults before the call, the    *)
(* empty list when there was none; a search made on a live service makes   *)
(* exactly one call of the tool.                                           *)
(***************************************************************************)
OrEmptyList(given) == IF given = Undefined THEN <<>> ELSE given[1]

TestModeSearchesAreLocal ==
  scall.phase # "idle" =>
    IF scall.testMode
      THEN /\ scall.phase = "done"
           /\ networkCalls = 0
           /\ found = [kind |-> "list", list |-> OrEmptyList(scall.mockGiven), message |-> ""]
      ELSE networkCalls = 1

TestModeSearchGaveMockList ==
  /\ scall.op = "search"
  /\ scall.phase = "done"
  /\ scall.testMode
  /\ scall.mockGiven # Undefined
  /\ Len(scall.mockGiven[1]) = 2
  /\ networkCalls = 0
  /\ sret.kind = "list"
  /\ sret.list = scall.mockGiven[1]

(***************************************************************************)
(* C11: when the call of the tool fails in a live (non-test-mode) service, *)
(* search raises an error whose message is "Tavily search failed: "        *)
(* followed by the original message; it returns no result list in that     *)
(* case and calls the tool once only.                                      *)
(***************************************************************************)
ToolCallFailed ==
  /\ scall.phase = "done"
  /\ ~scall.testMode
  /\ scall.outcome.kind \in {"error", "thrown_value"}

SearchFailureIsWrapped ==
  ToolCallFailed =>
    /\ found.kind = "throw"
    /\ found.message = "Tavily search failed: " \o scall.outcome.message
    /\ networkCalls = 1

(***************************************************************************)
(* C14 as stated: each Logger call (debug, info, warn, error) writes       *)
(* exactly one serialized record to exactly one stream: debug and info to  *)
(* console.log, warn to console.warn, error to console.error; no call is   *)
(* filtered, buffered or duplicated.                                       *)
(***************************************************************************)
StreamOfMethod(level) ==
  CASE level = "DEBUG" -> "console.log"
    [] level = "INFO" -> "console.log"
    [] level = "WARN" -> "console.warn"
    [] level = "ERROR" -> "console.error"

EveryLoggerCallWritesOnce ==
  /\ Len(written) = Len(logged)
  /\ \A i \in 1..Len(logged) :
       i <= Len(written) => written[i].stream = StreamOfMethod(logged[i].level)

(***************************************************************************)
(* C14 amended: each Logger call whose record JSON.stringify accepts       *)
(* writes exactly one serialized record to exactly one stream, debug and   *)
(* info to console.log, warn to console.warn, error to console.error, in   *)
(* the order of the calls; a call whose details hold a value               *)
(* JSON.stringify throws on raises that exception and writes nothing.      *)
(***************************************************************************)
CanBeSerialized(call) ==
  \A i \in 1..Len(call.details) : call.details[i].value.type \in {"string", "undefined"}

EverySerializableLoggerCallWritesOnce ==
  LET accepted == SelectSeq(logged, CanBeSerialized)
  IN /\ Len(written) = Len(accepted)
     /\ \A i \in 1..Len(accepted) :
          i <= Len(written) => written[i].stream = StreamOfMethod(accepted[i].level)
     /\ \A i \in 1..Len(logged) : logged[i].threw <=> ~CanBeSerialized(logged[i])

WroteAroundAThrowingCall ==
  /\ Len(logged) = 3
  /\ logged[1].level = "WARN"
  /\ logged[2].level = "INFO"
  /\ logged[2].threw
  /\ logged[3].level = "ERROR"
  /\ Len(written) = 2
  /\ written[1].stream = "console.warn"
  /\ written[2].stream = "console.error"

(***************************************************************************)
(* C15 as stated: the function createTracedFunction returns behaves as fn  *)
(* does: fn receives the argument list unchanged, the call resolves to the *)
(* value fn resolves to, and when fn throws the call rejects with the      *)
(* identical value.                                                        *)
(***************************************************************************)
TracedSettled(i) == tcalls[i].pc = "settled"

PassesArguments(i) == tcalls[i].pc # "idle" => tcalls[i].fnArgs = Some(tcalls[i].args)

TracedFunctionBehavesAsFn ==
  \A i \in TracedCalls :
    /\ PassesArguments(i)
    /\ TracedSettled(i) =>
         tcalls[i].result =
           [kind |-> IF tcalls[i].fnDid.kind = "resolves" THEN "resolved" ELSE "rejected",
            value |-> tcalls[i].fnDid.value]

(***************************************************************************)
(* C15 amended: fn receives the argument list unchanged and the call       *)
(* resolves to the value fn resolves to; when fn throws an Error, or a     *)
(* value String() can convert, the call rejects with the identical value;  *)
(* when fn throws a value that is no Error and that String() throws on,    *)
(* the call rejects with that TypeError in place of the value.             *)
(***************************************************************************)
TracedFunctionBehavesAsFnUnlessStringThrows ==
  \A i \in TracedCalls :
    /\ PassesArguments(i)
    /\ TracedSettled(i) =>
         LET did == tcalls[i].fnDid
         IN tcalls[i].result =
              IF did.kind = "resolves" THEN [kind |-> "resolved", value |-> did.value]
              ELSE IF did.value.type = "object"
                THEN [kind |-> "rejected",
                      value |-> [type |-> "TypeError",
                                 text |-> "Cannot convert object to primitive value"]]
              ELSE [kind |-> "rejected", value |-> did.value]

ResolvedAndRejectedAsFn ==
  /\ tcalls[1].args = <<"hello", "42">>
  /\ tcalls[1].result = [kind |-> "resolved", value |-> [type |-> "string", text |-> "hello-42"]]
  /\ tcalls[2].fnDid = [kind |-> "throws", value |-> [type |-> "Error", text |-> "Test error"]]
  /\ tcalls[2].result = [kind |-> "rejected", value |-> [type |-> "Error", text |-> "Test error"]]

(***************************************************************************)
(* C16 as stated: each traced call starts one span before fn runs and ends *)
(* it exactly once after fn has settled, on success and on failure; when   *)
(* fn throws, the thrown error is recorded on the span (name, message,     *)
(* stack) and the status is set to error before the span is ended; the     *)
(* error status is never set on success.                                   *)
(***************************************************************************)
CountOf(events, event) == Cardinality({k \in 1..Len(events) : events[k] = event})

SpanBracketsFn(i) ==
  LET call == tcalls[i]
  IN /\ call.pc = "idle" => call.events = <<>>
     /\ call.pc = "pending" => call.events = <<"startSpan", "fn">> /\ call.span.ended = 0
     /\ call.pc = "settled" =>
          /\ SubSeq(call.events, 1, 2) = <<"startSpan", "fn">>
          /\ call.events[Len(call.events)] = "end"
          /\ CountOf(call.events, "end") = 1
          /\ CountOf(call.events, "startSpan") = 1
          /\ call.span.ended = 1

ExceptionOf(value) ==
  [name |-> value.type, message |-> value.text, stack |-> value.type \o ": " \o value.text]

SpanRecordsEveryThrow ==
  \A i \in TracedCalls :
    /\ SpanBracketsFn(i)
    /\ (TracedSettled(i) /\ tcalls[i].fnDid.kind = "throws") =>
         /\ tcalls[i].span.exceptions = <<ExceptionOf(tcalls[i].fnDid.value)>>
         /\ tcalls[i].span.status # Undefined
         /\ tcalls[i].span.status[1].code = "ERROR"
         /\ tcalls[i].events = <<"startSpan", "fn", "recordException", "setStatus", "end">>
    /\ (TracedSettled(i) /\ tcalls[i].fnDid.kind = "resolves") =>
         tcalls[i].span.status = Undefined

(***************************************************************************)
(* C16 amended: each traced call starts one span before fn runs and ends   *)
(* it exactly once after fn has settled, on success and on failure; when   *)
(* fn throws an Error, the error is recorded on the span (name, message,   *)
(* stack) and the status is set to error with its message before the span  *)
(* is ended; when fn throws a value that is no Error, nothing is recorded  *)
(* and the status is set to error with String(value) before the end, or    *)
(* not set at all when String(value) throws; the error status is never     *)
(* set on success.                                                         *)
(***************************************************************************)
SpanRecordsThrownErrors ==
  \A i \in TracedCalls :
    /\ SpanBracketsFn(i)
    /\ (TracedSettled(i) /\ tcalls[i].fnDid.kind = "throws") =>
         LET value == tcalls[i].fnDid.value
             span == tcalls[i].span
         IN CASE value.type = "Error" ->
                   /\ span.exceptions = <<ExceptionOf(value)>>
                   /\ span.status = Some([code |-> "ERROR", message |-> value.text])
                   /\ tcalls[i].events =
                        <<"startSpan", "fn", "recordException", "setStatus", "end">>
              [] value.type = "string" ->
                   /\ span.exceptions = <<>>
                   /\ span.status = Some([code |-> "ERROR", message |-> value.text])
                   /\ tcalls[i].events = <<"startSpan", "fn", "setStatus", "end">>
              [] value.type = "object" ->
                   /\ span.exceptions = <<>>
                   /\ span.status = Undefined
                   /\ tcalls[i].events = <<"startSpan", "fn", "end">>
    /\ (TracedSettled(i) /\ tcalls[i].fnDid.kind = "resolves") =>
         /\ tcalls[i].span.status = Undefined
         /\ tcalls[i].span.exceptions = <<>>
         /\ tcalls[i].events = <<"startSpan", "fn", "end">>

SpansOfAnErrorAndAStringThrown ==
  /\ tcalls[1].fnDid = [kind |-> "throws", value |-> [type |-> "Error", text |-> "Test error"]]
  /\ Len(tcalls[1].span.exceptions) = 1
  /\ tcalls[1].span.ended = 1
  /\ tcalls[2].fnDid = [kind |-> "throws", value |-> [type |-> "string", text |-> "timeout"]]
  /\ tcalls[2].span.exceptions = <<>>
  /\ tcalls[2].span.status # Undefined
  /\ tcalls[2].span.ended = 1

(***************************************************************************)
(* C17: for a span manager, isActive() returns true exactly when a start() *)
(* call was made with no end() call since; getSpan() returns null exactly  *)
(* when the manager is not active; end() on an inactive manager changes    *)
(* nothing, so the end of no span is invoked twice; addAttribute,          *)
(* addAttributes, addEvent and recordError on an inactive manager change   *)
(* nothing and raise nothing.                                              *)
(***************************************************************************)
StartedWithNoEndSince == mlast.startsSinceEnd > 0

ManagerAnswersMatchCalls ==
  /\ (mspan # Undefined) <=> StartedWithNoEndSince
  /\ mlast.op = "isActive" =>
       mlast.returned = [type |-> "boolean", index |-> 0, flag |-> StartedWithNoEndSince]
  /\ mlast.op = "getSpan" =>
       /\ (mlast.returned.type = "null") <=> ~StartedWithNoEndSince
       /\ StartedWithNoEndSince =>
            mlast.returned = [type |-> "span", index |-> Len(spansMade), flag |-> FALSE]
  /\ \A k \in 1..Len(spansMade) : spansMade[k].ended <= 1

CallOnInactiveManager ==
  /\ mcalls' = mcalls + 1
  /\ ~StartedWithNoEndSince
  /\ mlast'.op \in {"end", "addAttribute", "addAttributes", "addEvent", "recordError"}

InactiveManagerCallsDoNothing ==
  CallOnInactiveManager =>
    /\ spansMade' = spansMade
    /\ mspan' = mspan
    /\ mcontext' = mcontext
    /\ ~mlast'.threw
    /\ mlast'.returned.type = "undefined"

SpanManagerFollowsStartAndEnd ==
  []ManagerAnswersMatchCalls /\ [][InactiveManagerCallsDoNothing]_vars

EndedThenCalledWhileInactive ==
  /\ mcalls = 4
  /\ Len(spansMade) = 1
  /\ spansMade[1].ended = 1
  /\ spansMade[1].exceptions = <<>>
  /\ mspan = Undefined
  /\ mlast.op = "recordError"
  /\ ~mlast.threw

(***************************************************************************)
(* C18: initializeTelemetry reports OpenTelemetry as enabled only when     *)
(* "--unstable-otel" is among the arguments and OTEL_DENO is 'true'; in    *)
(* every other combination it writes a warning containing 'not fully       *)
(* configured' that carries the two flags it found; it never throws, and   *)
(* getLogger(component) of the object it returns gives a Logger of that    *)
(* component.                                                              *)
(***************************************************************************)
TextNotFullyConfigured ==
  <<"n", "o", "t", " ", "f", "u", "l", "l", "y", " ", "c", "o", "n", "f",
    "i", "g", "u", "r", "e", "d">>

HasMember(record, key, text) ==
  \E j \in 1..Len(record) : record[j].key = key /\ record[j].value.text = text

MessageContains(record, piece) ==
  \E j \in 1..Len(record) :
    /\ record[j].key = "message"
    /\ Contains(record[j].value.text, piece)

ReportedOtelEnabled ==
  \E i \in 1..Len(telemetry.console) :
    /\ telemetry.console[i].stream = "console.log"
    /\ HasMember(telemetry.console[i].record, "level", "INFO")
    /\ HasMember(telemetry.console[i].record, "message", TextOtelEnabled)

FlagAndEnvironmentSet ==
  /\ \E i \in 1..Len(telemetry.args) : telemetry.args[i] = "--unstable-otel"
  /\ telemetry.otelDeno = <<"true">>

WarnedOtelNotFullyConfigured ==
  \E i \in 1..Len(telemetry.console) :
    LET record == telemetry.console[i].record
    IN /\ telemetry.console[i].stream = "console.warn"
       /\ HasMember(record, "level", "WARN")
       /\ MessageContains(record, TextNotFullyConfigured)
       /\ HasMember(record, "isOtelFlagPresent",
                    IF \E k \in 1..Len(telemetry.args) : telemetry.args[k] = "--unstable-otel"
                      THEN "true" ELSE "false")
       /\ HasMember(record, "isOtelEnvSet",
                    IF telemetry.otelDeno = <<"true">> THEN "true" ELSE "false")

TelemetryReportsItsConfiguration ==
  /\ telemetry.calls > 0 =>
       /\ ~telemetry.threw
       /\ telemetry.returned
       /\ ReportedOtelEnabled => FlagAndEnvironmentSet
       /\ ~FlagAndEnvironmentSet => WarnedOtelNotFullyConfigured
  /\ gotLogger # Undefined =>
       /\ telemetry.returned
       /\ gotLogger[1].class = "Logger"
       /\ gotLogger[1].component \in TelemetryComponents

EnabledTelemetryGaveALogger ==
  /\ telemetry.calls > 0
  /\ FlagAndEnvironmentSet
  /\ ReportedOtelEnabled
  /\ ~WarnedOtelNotFullyConfigured
  /\ gotLogger = <<[class |-> "Logger", component |-> "test-component"]>>

(***************************************************************************)
(* C19: two concurrently running tasks that call recordTokenUsage or       *)
(* recordError for the same tracked queryId lose an update: after both     *)
(* calls the stored number is smaller than the number stored before the    *)
(* first call plus both increments.                                        *)
(***************************************************************************)
BothCalled(t, u) ==
  /\ t # u
  /\ taskPc[t] = "done" /\ taskPc[u] = "done"
  /\ taskDid[t].tracked /\ taskDid[u].tracked
  /\ taskDid[t].queryId = taskDid[u].queryId
  /\ taskDid[t].op = taskDid[u].op
  /\ taskDid[t].seq < taskDid[u].seq

PriorPlusBoth(t, u) == taskDid[t].before + taskDid[t].value + taskDid[u].value

ReturnedRecordsAreSnapshots ==
  \A i \in 1..Len(held) : objects[held[i].ref] = held[i].copy

ReturnedThenReusedTheId ==
  \E i \in 1..Len(held) :
    LET q == held[i].copy.queryId
    IN /\ MapHas(entries, q)
       /\ entries[q] # held[i].ref
       /\ Deref(q).tokenUsage # Undefined
       /\ held[i].copy.tokenUsage = Undefined
       /\ hlast.op = "recordTokenUsage"

(***************************************************************************)
(* C26: startQueryTracking for a tracked queryId replaces its record:      *)
(* searchLatency, documentFetchCount, tokenUsage and sourceDiversity are   *)
(* unset, errorCount is 0 and startTime is the time of the call; a later   *)
(* finalize reports only what was recorded after the most recent start.    *)
(***************************************************************************)
IsFreshRecord(query, t) ==
  /\ query.searchLatency = Undefined
  /\ query.documentFetchCount = Undefined
  /\ query.tokenUsage = Undefined
  /\ query.sourceDiversity = Undefined
  /\ query.errorCount = <<0>>
  /\ query.startTime = t

ReportsWhatWasAsked(query, asked) ==
  /\ query.searchLatency = asked.searchLatency
  /\ query.documentFetchCount = asked.documentFetchCount
  /\ query.tokenUsage = asked.tokenUsage
  /\ query.sourceDiversity = asked.sourceDiversity
  /\ query.errorCount = <<asked.errors>>

RestartReplacesTheRecord ==
  /\ hlast.op = "startQueryTracking" =>
       /\ MapHas(entries, hlast.queryId)
       /\ IsFreshRecord(Deref(hlast.queryId), hlast.at)
  /\ \A i \in 1..Len(held) :
       ReportsWhatWasAsked(held[i].copy, held[i].asked.noted)

FinalizedAfterRestart ==
  \E i \in 1..Len(held) :
    /\ held[i].asked.replaced # Undefined
    /\ held[i].asked.replaced[1].tokenUsage = <<1>>
    /\ held[i].copy.tokenUsage = Undefined
    /\ held[i].copy.errorCount = <<0>>

(***************************************************************************)
(* C27: a start, recorder or finalize call for one queryId leaves the      *)
(* presence and every field of the record of each other queryId as it was, *)
(* in every interleaving of calls for the two ids.                         *)
(***************************************************************************)
OthersUntouched ==
  \A b \in QueryIds :
    (hlast'.n = hlast.n \/ b # hlast'.queryId) =>
      /\ MapHas(entries', b) <=> MapHas(entries, b)
      /\ MapHas(entries, b) => objects'[entries'[b]] = objects[entries[b]]

CallsAreIsolatedPerId == [][OthersUntouched]_vars

FinalizedBesideATrackedId ==
  /\ hlast.op = "finalizeQueryTracking"
  /\ hlast.queryId = "q1"
  /\ Len(held) = 1
  /\ held[1].copy.queryId = "q1"
  /\ MapHas(entries, "q2")
  /\ Deref("q2").tokenUsage = <<1>>
  /\ ~MapHas(entries, "q1")

(***************************************************************************)
(* C22: every simpleResearcher invocation calls the chat client exactly    *)
(* once, after research_summary has been assigned and before answer is    *)
(* assigned; a failed chat call is not retried.                            *)
(***************************************************************************)
ChatCalledOnceInOrder(i) ==
  /\ rpc[i] = "awaiting" =>
       /\ Len(chatRequest[i]) = 1
       /\ state[i].research_summary # Undefined
       /\ state[i].answer = Undefined
  /\ rpc[i] \in {"done", "rejected"} =>
       /\ Len(chatRequest[i]) = 1
       /\ state[i].research_summary # Undefined
       /\ state[i].answer # Undefined

EachInvocationCallsChatOnce == \A i \in Invocations : ChatCalledOnceInOrder(i)

\* C22 for the invocations whose chat client was constructed
EachInvocationWithAClientCallsChatOnce ==
  \A i \in Invocations : rpc[i] # "rejected" => ChatCalledOnceInOrder(i)

(***************************************************************************)
(* C23: when the search backend answers with a body that cannot be parsed, *)
(* search logs the parse error and resolves to an empty list, it does not  *)
(* throw; searchAndFormatResults then returns "No results found.".         *)
(***************************************************************************)
BodyWasMalformed ==
  /\ scall.phase = "done"
  /\ scall.outcome.kind = "json_invalid"

MalformedBodyGivesEmptyList ==
  BodyWasMalformed =>
    /\ found = [kind |-> "list", list |-> <<>>, message |-> ""]
    /\ searchConsole[Len(searchConsole)] = "console.error"
    /\ scall.op = "search" => sret.kind = "list" /\ sret.list = <<>>
    /\ scall.op = "searchAndFormatResults" =>
         sret.kind = "text" /\ sret.text = TextNoResults

\* C23 for the class that parses the body
PlainMalformedBodyGivesEmptyList ==
  serviceClass = "plain" => MalformedBodyGivesEmptyList

(***************************************************************************)
(* C24: for every Logger call and every details object the serialized      *)
(* record has the level of the method called, the message argument, the    *)
(* logger's component name and a valid ISO timestamp, and every details    *)
(* key appears in it with its value.                                       *)
(***************************************************************************)
MemberIs(record, key, value) ==
  \E j \in 1..Len(record) : record[j].key = key /\ record[j].value = value

HasTimestamp(record) ==
  \E j \in 1..Len(record) :
    /\ record[j].key = "timestamp"
    /\ record[j].value.type = "string"
    /\ record[j].value.text \in IsoTimestamps

RecordFields == {"timestamp", "level", "message", "component"}

FieldOfCall(call, key) ==
  CASE key = "level" -> StringValue(call.level)
    [] key = "message" -> StringValue(call.message)
    [] key = "component" -> StringValue(LoggerComponent)

RecordMergesDetailsOverFields(record, call) ==
  /\ \A j, k \in 1..Len(record) : record[j].key = record[k].key => j = k
  /\ Keys(record) \subseteq RecordFields \cup Keys(call.details)
  /\ \A j \in 1..Len(call.details) :
       IF call.details[j].value.type = "undefined"
         THEN call.details[j].key \notin Keys(record)
       ELSE MemberIs(record, call.details[j].key, call.details[j].value)
  /\ \A key \in RecordFields \ Keys(call.details) :
       IF key = "timestamp" THEN HasTimestamp(record)
       ELSE MemberIs(record, key, FieldOfCall(call, key))

RECURSIVE AddedTo(_, _)
AddedTo(instrument, ops) ==
  IF ops = <<>> THEN 0
  ELSE (IF ops[1].instrument = instrument /\ ops[1].op = "add" /\ ops[1].value # Undefined
          THEN ops[1].value[1] ELSE 0)
       + AddedTo(instrument, Tail(ops))

LiveSearchSucceeded ==
  /\ serviceClass = "instrumented"
  /\ scall.phase = "done"
  /\ scall.op = "search"
  /\ ~scall.testMode
  /\ scall.outcome.kind \in {"array", "json_list"}

SearchIsCountedOnce ==
  LiveSearchSucceeded =>
    /\ AddedTo("search_requests", searchMetrics) = 1
    /\ AddedTo("documents_fetched", searchMetrics) = Len(scall.outcome.list)

\* C25 for the calls that resolve to an array and name no tracked id
UntrackedArraySearchIsCountedOnce ==
  (/\ LiveSearchSucceeded
   /\ scall.outcome.kind = "array"
   /\ (traced.queryId = Undefined \/ traced.queryId[1] \notin DOMAIN activeQueries)) =>
    /\ AddedTo("search_requests", searchMetrics) = 1
    /\ AddedTo("documents_fetched", searchMetrics) = Len(scall.outcome.list)

(***************************************************************************)
(* C28: a TavilySearchService that was constructed is, after any sequence  *)
(* of search and setMockResults calls, in test mode or has its Tavily tool *)
(* initialized, so no search fails with 'Tavily tool not initialized'.     *)
(***************************************************************************)
ToolNotInitializedMessages ==
  {"Tavily tool not initialized", "Tavily search failed: Tavily tool not initialized"}

TestModeOrToolInitialized ==
  /\ svc.constructed = "ready" => svc.isTestMode \/ svc.hasTool
  /\ found.message \notin ToolNotInitializedMessages
  /\ sret.message \notin ToolNotInitializedMessages

LiveServiceSearchedAndFailedOtherwise ==
  /\ svc.constructed = "ready"
  /\ svc.hasTool
  /\ ~svc.isTestMode
  /\ scall.phase = "done"
  /\ found.kind = "throw"

(***************************************************************************)
(* C29: test mode is absorbing: once the service is in test mode, through  *)
(* the testMode option, the constructor's fallback or setMockResults, it   *)
(* stays in test mode after every later operation; a search begun after    *)
(* setMockResults on a live service makes no call of the tool, although    *)
(* the tool is initialized.                                                *)
(***************************************************************************)
TestModeStays == svc.isTestMode => svc'.isTestMode

MockedServiceIsInTestMode ==
  /\ mockGiven # Undefined => svc.isTestMode
  /\ (scall.phase # "idle" /\ scall.mockGiven # Undefined) =>
       /\ scall.testMode
       /\ scall.phase = "done"
       /\ scall.outcome.kind = "none"
       /\ networkCalls = 0

TestModeIsAbsorbing == []MockedServiceIsInTestMode /\ [][TestModeStays]_vars

LiveServiceSearchedAfterMock ==
  /\ svc.hasTool
  /\ svc.isTestMode
  /\ constructedWith # Undefined
  /\ ~constructedWith[1].testMode
  /\ scall.phase = "done"
  /\ scall.op = "searchAndFormatResults"
  /\ scall.mockGiven # Undefined
  /\ networkCalls = 0

(***************************************************************************)
(* C30: the span manager never loses a span: whenever the last call of a   *)
(* sequence of start() and end() calls is end(), every span that start()   *)
(* created has been ended exactly once, also when start() was called       *)
(* while a span was active.                                                *)
(***************************************************************************)
EveryStartedSpanIsEnded ==
  (mlast.op = "end" /\ ~mlast.threw) =>
    \A i \in 1..Len(spansMade) : spansMade[i].ended = 1

=============================================================================
